---- MODULE Spec2Model ----
(***************************************************************************)
(* Model of the step network of taketake.py: StepperQueue, Stepper,        *)
(* StepNetwork and the step coroutines wired together by run_tasks.        *)
(***************************************************************************)
EXTENDS Integers, Sequences, FiniteSets, TLC

VARIABLES
    network,        \* the StepNetwork object (queue dicts, steppers, targets)
    wstate,         \* "building" | "accepted" | "rejected" : outcome of add()/check_queues()
    nadds,          \* number of add() calls made so far
    script,         \* the add() calls the program makes before execute(), in order
    items,          \* StepperQueue (asyncio.Queue) contents, per queue
    pending,        \* StepperQueue.pending, per queue
    getter,         \* StepperQueue.getter, per queue: NoGetter | Waiting | Got
    result,         \* the finished getter task's result, per queue
    done,           \* StepperQueue.done, per queue
    value,          \* Stepper.value, per stepper
    pre_sync_met,   \* Stepper.pre_sync_met, per stepper
    pc,             \* position of each coroutine
    phase,          \* which _get_across call a stepper is in: "sync" | "token"
    ret,            \* value returned by the last _get_across, per stepper
    err,            \* exception raised in each coroutine ("" when none)
    worklist,       \* len(worklist) in run_tasks
    submitted,      \* Step.listen: tokens handed to the executor (future_to_token)
    put_log,        \* history: every token ever put on each queue, in order
    delivered,      \* history: tokens returned by Stepper.get, per stepper
    invoked,        \* history: tokens for which walk() invoked the step body
    nputs,          \* number of direct upstream puts made so far
    act,            \* Config.act (False under --no-act)
    continue_from,  \* whether cmdargs.continue_from is set
    disk,           \* the paths that exist on disk
    called,         \* the function call under study and its arguments
    outcome         \* what that call returned or raised

vars == <<network, wstate, nadds, script, items, pending, getter, result, done, value,
          pre_sync_met, pc, phase, ret, err, worklist, submitted, put_log,
          delivered, invoked, nputs, act, continue_from, disk, called, outcome>>

wiringVars == <<network, wstate, nadds, script>>
runVars == <<items, pending, getter, result, done, value, pre_sync_met, pc,
             phase, ret, err, worklist, submitted, put_log, delivered,
             invoked, nputs>>
fsVars == <<act, continue_from, disk>>
callVars == <<called, outcome>>

-----------------------------------------------------------------------------
(* Tokens.  The end token is None in the source (StepNetwork(end=None)).   *)

End == -1

Range(s) == {s[i] : i \in DOMAIN s}

-----------------------------------------------------------------------------
(* StepNetwork construction                                                *)

\* An argument that was not given (None).  listify(None) == [].
NoneArg == <<"">>

listify(arg) == IF arg = NoneArg THEN <<>> ELSE arg

\* Link(src, dest)
Link(src, dest) == <<src, dest>>

other(side) == IF side = "dest" THEN "src" ELSE "dest"

LinkEnd(link, side) == IF side = "src" THEN link[1] ELSE link[2]

\* StepperQueue.__init__: neither end claimed yet
StepperQueue == [src |-> FALSE, dest |-> FALSE]

\* Stepper.__init__ with no queues
Stepper == [sync_from |-> <<>>, pull_from |-> <<>>, send_to |-> <<>>, sync_to |-> <<>>]

\* StepNetwork.__init__
StepNetwork ==
    [tasks |-> <<>>, steps |-> <<>>, seen_coroutines |-> {},
     sync_queues |-> <<>>, token_queues |-> <<>>,
     targets |-> <<>>, failed |-> ""]

Fail(net, why) == IF net.failed = "" THEN [net EXCEPT !.failed = why] ELSE net

QDict(net, qname) == IF qname = "sync" THEN net.sync_queues ELSE net.token_queues

SetQDict(net, qname, link, q) ==
    IF qname = "sync"
    THEN [net EXCEPT !.sync_queues = (link :> q) @@ net.sync_queues]
    ELSE [net EXCEPT !.token_queues = (link :> q) @@ net.token_queues]

\* StepNetwork._map_link_to_queue: the network after the call (failed set when
\* an assertion fails)
map_link_to_queue(net, link, qname, side) ==
    LET qdict == QDict(net, qname)
        other_coro == LinkEnd(link, other(side))
    IN  IF link[1] = link[2] THEN Fail(net, "self-loop")
        ELSE IF link \notin DOMAIN qdict /\ other_coro \in net.seen_coroutines
        THEN Fail(net, "missing")
        ELSE LET q == IF link \in DOMAIN qdict THEN qdict[link] ELSE StepperQueue
             IN  IF q[side] THEN Fail(net, "already-added")
                 ELSE SetQDict(net, qname, link, [q EXCEPT ![side] = TRUE])

\* The stepper a coroutine currently has (tasks[coro] or steps[coro])
StepperOf(net, coro) ==
    IF coro \in DOMAIN net.steps THEN net.steps[coro] ELSE net.tasks[coro]

SetStepper(net, coro, st) ==
    IF coro \in DOMAIN net.steps
    THEN [net EXCEPT !.steps = (coro :> st) @@ net.steps]
    ELSE [net EXCEPT !.tasks = (coro :> st) @@ net.tasks]

QueueId(qname, link) == <<qname, link[1], link[2]>>

\* the loop of StepNetwork._add_link_queues over the listed coroutines
RECURSIVE add_link_loop(_, _, _, _, _, _)
add_link_loop(net, coro, lname, qname, side, lst) ==
    IF lst = <<>> \/ net.failed # "" THEN net
    ELSE LET item == Head(lst)
             link == IF side = "src" THEN Link(coro, item) ELSE Link(item, coro)
             n1 == map_link_to_queue(net, link, qname, side)
             st == StepperOf(n1, coro)
             n2 == IF n1.failed # "" THEN n1
                   ELSE SetStepper(n1, coro,
                          [st EXCEPT ![lname] = Append(st[lname], QueueId(qname, link))])
         IN  add_link_loop(n2, coro, lname, qname, side, Tail(lst))

\* StepNetwork._add_link_queues: coro is the src of send_to/sync_to links
\* (and then records its targets) and the dest of sync_from/pull_from links
add_link_queues(net, coro, lname, qname, side, lst) ==
    LET n0 == IF side = "src"
              THEN [net EXCEPT !.targets[coro] = @ \cup Range(lst)]
              ELSE net
    IN  add_link_loop(n0, coro, lname, qname, side, lst)

\* StepNetwork.add
add(net, coro, is_stepped, sync_from, pull_from, send_to, sync_to) ==
    LET n0 == [net EXCEPT !.seen_coroutines = @ \cup {coro}]
        n1 == IF is_stepped
              THEN IF pull_from = NoneArg THEN Fail(n0, "needs-pull_from")
                   ELSE [n0 EXCEPT !.steps = (coro :> Stepper) @@ n0.steps]
              ELSE [n0 EXCEPT !.tasks = (coro :> Stepper) @@ n0.tasks]
        n2 == IF n1.failed # "" THEN n1
              ELSE [n1 EXCEPT !.targets = (coro :> {}) @@ n1.targets]
        n3 == IF n2.failed # "" THEN n2
              ELSE add_link_queues(n2, coro, "sync_from", "sync", "dest", listify(sync_from))
        n4 == IF n3.failed # "" THEN n3
              ELSE add_link_queues(n3, coro, "pull_from", "token", "dest", listify(pull_from))
        n5 == IF n4.failed # "" THEN n4
              ELSE add_link_queues(n4, coro, "send_to", "token", "src", listify(send_to))
    IN  IF n5.failed # "" THEN n5
        ELSE add_link_queues(n5, coro, "sync_to", "sync", "src", listify(sync_to))

\* StepNetwork.check_queue_wiring: every queue of the dict has both ends claimed
check_queue_wiring(qdict) ==
    \A link \in DOMAIN qdict : qdict[link].src /\ qdict[link].dest

\* StepNetwork.depth_first_visit: three-colour depth-first search.  The result
\* holds the colours after the visit and the exception raised, if any.
RECURSIVE depth_first_visit(_, _, _)
RECURSIVE visit_targets(_, _, _, _)
visit_targets(net, color, u, todo) ==
    IF todo = {} THEN [color |-> color, raised |-> ""]
    ELSE LET v == CHOOSE x \in todo : TRUE
         IN  IF v \notin DOMAIN color
             THEN [color |-> color, raised |-> "AttributeError"]
             ELSE IF color[v] = "white"
             THEN LET r == depth_first_visit(net, color, v)
                  IN  IF r.raised # "" THEN r
                      ELSE visit_targets(net, r.color, u, todo \ {v})
             ELSE IF color[v] = "gray"
             THEN [color |-> color, raised |-> "HasCycle"]
             ELSE visit_targets(net, color, u, todo \ {v})

depth_first_visit(net, color, u) ==
    LET gray == [color EXCEPT ![u] = "gray"]
        r == visit_targets(net, gray, u, net.targets[u])
    IN  IF r.raised # "" THEN r
        ELSE [color |-> [r.color EXCEPT ![u] = "black"], raised |-> ""]

\* StepNetwork.check_for_cycles: visit from a fake vertex whose targets are all
\* the added coroutines; TRUE when no exception is raised
check_for_cycles(net) ==
    LET vertices == DOMAIN net.tasks \cup DOMAIN net.steps
        white == [v \in vertices \cup {"fake"} |-> "white"]
        fakenet == [net EXCEPT !.targets = ("fake" :> vertices) @@ net.targets]
    IN  depth_first_visit(fakenet, white, "fake").raised = ""

\* StepNetwork.check_queues: TRUE when it returns without raising
check_queues(net) ==
    /\ check_queue_wiring(net.sync_queues)
    /\ check_queue_wiring(net.token_queues)
    /\ check_for_cycles(net)

-----------------------------------------------------------------------------
(* The network of run_tasks                                                *)

\* the arguments of one StepNetwork.add call
AddCall(coro, stepped, sync_from, pull_from, send_to, sync_to) ==
    [coro |-> coro, is_stepped |-> stepped, sync_from |-> sync_from,
     pull_from |-> pull_from, send_to |-> send_to, sync_to |-> sync_to]

\* @StepNetwork.stepped marks of the Step coroutines
is_stepped(coro) == coro \in {"autoname", "prompt", "flacenc", "pargen", "xdelta", "cleanup"}

\* StepNetwork.add_pipeline: the add() calls it makes for the steps args
add_pipeline(args, sync_from, pull_from, send_to, sync_to) ==
    LET n == Len(args)
    IN  <<AddCall(args[1], is_stepped(args[1]), sync_from, pull_from, <<args[2]>>, NoneArg)>>
        \o [i \in 1..(n - 2) |->
              AddCall(args[i + 1], is_stepped(args[i + 1]), NoneArg,
                      <<args[i]>>, <<args[i + 2]>>, NoneArg)]
        \o <<AddCall(args[n], is_stepped(args[n]), NoneArg, <<args[n - 1]>>, send_to, sync_to)>>

\* run_tasks: the add() calls made before network.execute()
run_tasks ==
    <<AddCall("setup", FALSE, NoneArg, NoneArg, <<"listen", "flacenc">>, NoneArg)>>
    \o add_pipeline(<<"listen", "reorder", "autoname", "prompt">>,
                    NoneArg, <<"setup">>, <<"pargen">>, NoneArg)
    \o <<AddCall("flacenc", TRUE, NoneArg, <<"setup">>, <<"pargen", "xdelta">>, <<"xdelta">>),
         AddCall("pargen", TRUE, NoneArg, <<"prompt", "flacenc">>, <<"cleanup">>, NoneArg),
         AddCall("xdelta", TRUE, <<"flacenc">>, <<"flacenc">>, NoneArg, <<"cleanup">>),
         AddCall("cleanup", TRUE, <<"xdelta">>, <<"pargen">>, NoneArg, NoneArg)>>

-----------------------------------------------------------------------------
(* Building a network: any sequence of add() calls, then check_queues()    *)

MaxAdds == 3
MaxLinksPerAdd == 2
MaxListLen == 1

WiringCoros == {"setup", "listen", "pargen"}

CoroLists == UNION {[1..n -> WiringCoros] : n \in 1..MaxListLen}

ArgChoices == {NoneArg} \cup CoroLists

\* no call under study
NoCall == <<>>

\* a first run that acts on an empty destination directory, and no call
FreshRun ==
    /\ act = TRUE
    /\ continue_from = FALSE
    /\ disk = {<<"dest">>}
    /\ called = NoCall
    /\ outcome = NoCall

IdleRun ==
    /\ items = <<>> /\ pending = <<>> /\ getter = <<>> /\ result = <<>>
    /\ done = <<>> /\ value = <<>> /\ pre_sync_met = <<>> /\ pc = <<>>
    /\ phase = <<>> /\ ret = <<>> /\ err = <<>> /\ worklist = 0
    /\ submitted = {} /\ put_log = <<>> /\ delivered = <<>> /\ invoked = <<>>
    /\ nputs = 0

InitWiring ==
    /\ network = StepNetwork
    /\ wstate = "building"
    /\ nadds = 0
    /\ script = <<>>
    /\ IdleRun
    /\ FreshRun

\* one call of StepNetwork.add; an AssertionError ends the construction
Add(call) ==
    /\ wstate = "building"
    /\ network' = add(network, call.coro, call.is_stepped, call.sync_from,
                      call.pull_from, call.send_to, call.sync_to)
    /\ wstate' = IF network'.failed # "" THEN "rejected" ELSE "building"
    /\ nadds' = nadds + 1
    /\ UNCHANGED script
    /\ UNCHANGED runVars
    /\ UNCHANGED <<fsVars, callVars>>

\* any add() call with at most MaxLinksPerAdd links
AnyAdd ==
    /\ nadds < MaxAdds
    /\ \E coro \in WiringCoros :
         \E sync_from \in ArgChoices, pull_from \in ArgChoices \cup {<<>>},
            send_to \in ArgChoices, sync_to \in ArgChoices :
              /\ Len(listify(sync_from)) + Len(listify(pull_from))
                   + Len(listify(send_to)) + Len(listify(sync_to)) <= MaxLinksPerAdd
              /\ Add(AddCall(coro, is_stepped(coro), sync_from, pull_from, send_to, sync_to))

\* StepNetwork.execute up to the end of its check_queues() call
CheckQueues ==
    /\ wstate = "building"
    /\ script = <<>>
    /\ wstate' = IF check_queues(network) THEN "accepted" ELSE "rejected"
    /\ UNCHANGED <<network, nadds, script>>
    /\ UNCHANGED runVars
    /\ UNCHANGED <<fsVars, callVars>>

NextWiring ==
    \/ AnyAdd
    \/ CheckQueues

SpecWiring == InitWiring /\ [][NextWiring]_vars

-----------------------------------------------------------------------------
(* Running a network: StepperQueue, Stepper and the step coroutines        *)

Coroutines(net) == DOMAIN net.tasks \cup DOMAIN net.steps

Queues(net) ==
    {QueueId("sync", l) : l \in DOMAIN net.sync_queues}
      \cup {QueueId("token", l) : l \in DOMAIN net.token_queues}

St(s) == StepperOf(network, s)

\* a stepper that never looks at its sync_from queues
SyncFromIgnored(s) == {}

\* Stepper.sync_from, the q_list of the _get_across call in pre_sync
SyncFrom(s) == Range(St(s).sync_from)

\* a stepper that looks at the first of its pull_from queues only
PullFromFirst(s) ==
    IF St(s).pull_from = <<>> THEN {} ELSE {St(s).pull_from[1]}

\* Stepper.pull_from, the q_list of the _get_across call in get
PullFrom(s) == Range(St(s).pull_from)

\* the q_list argument of the _get_across call stepper s is in
QList(s) == IF phase[s] = "sync" THEN SyncFrom(s) ELSE PullFrom(s)

\* the local dict tasks of _get_across: the getters of the queues not yet done
Tasks(s) == {q \in QList(s) : ~done[q]}

\* gather() propagates the first exception and the run is torn down
Running == wstate = "accepted" /\ \A s \in DOMAIN err : err[s] = ""

\* The event loop is single-threaded and cooperative: a coroutine that has
\* been resumed runs until its next suspension (asyncio.wait, asyncio.sleep,
\* the end of the coroutine).  These positions are inside such a run.
RunningPcs == {"enter", "check", "ret", "body", "emit", "spin"}

\* coroutine s may take a step: nothing failed and no other coroutine is
\* in the middle of a run
CanRun(s) == Running /\ \A t \in DOMAIN pc : t # s => pc[t] \notin RunningPcs

\* every coroutine is suspended: the loop may run a getter task
Idle == Running /\ \A t \in DOMAIN pc : pc[t] \notin RunningPcs

\* tokens seen on any queue instead of on all of them
AnyQueue(S) == UNION S

\* set.intersection(*[q.pending for q in q_list])
Intersection(S) == {x \in UNION S : \A T \in S : x \in T}

\* a put that feeds the sync_to queues with every token
put_sync_always(its, s, token) ==
    [q \in DOMAIN its |->
        IF q \in Range(St(s).send_to) \cup Range(St(s).sync_to)
        THEN Append(its[q], token) ELSE its[q]]

\* a put that appends the token to every send_to queue twice
put_doubled(its, s, token) ==
    [q \in DOMAIN its |->
        IF q \in Range(St(s).send_to) THEN Append(Append(its[q], token), token)
        ELSE IF token = End /\ q \in Range(St(s).sync_to) THEN Append(its[q], token)
        ELSE its[q]]

\* Stepper.put: the queue contents after put(token) by stepper s
put(its, s, token) ==
    [q \in DOMAIN its |->
        IF q \in Range(St(s).send_to) THEN Append(its[q], token)
        ELSE IF token = End /\ q \in Range(St(s).sync_to) THEN Append(its[q], token)
        ELSE its[q]]

RECURSIVE put_all(_, _, _)
put_all(its, s, tokens) ==
    IF tokens = <<>> THEN its
    ELSE put_all(put(its, s, Head(tokens)), s, Tail(tokens))

\* tokens_done.pop(), popping again when the end token came first and others remain
pop_choices(tokens_done) ==
    IF tokens_done \ {End} # {} THEN tokens_done \ {End} ELSE tokens_done

\* a check that lets every mismatch pass
never_desynchronized(tokens_done, pendings) == FALSE

\* the end token is common to all queues and some queue's pending set differs
\* from the common tokens
desynchronized(tokens_done, pendings) ==
    End \in tokens_done /\ \E p \in pendings : tokens_done # p

\* Stepper._get_across, lines 1562-1566: the "Mismatches in ..." entries of the
\* report, one for each queue of the rest of q_list that has extra tokens; q
\* is the queue the outer loop is at, whose name the entry is written with
RECURSIVE bad_queue_strs(_, _, _)
bad_queue_strs(q, rest, tokens_done) ==
    IF rest = <<>> THEN <<>>
    ELSE LET badq == Head(rest)
             extra_tokens == pending[badq] \ tokens_done
         IN  (IF extra_tokens # {} THEN <<[name |-> q, tokens |-> extra_tokens]>>
              ELSE <<>>)
             \o bad_queue_strs(q, Tail(rest), tokens_done)

\* Stepper._get_across, lines 1557-1576: the report of the
\* DesynchronizationError raised for q_list, at the first queue of the list
\* whose pending set differs from the common tokens
desynchronization_report(q_list) ==
    LET tokens_done == Intersection({pending[q] : q \in Range(q_list)})
        at == CHOOSE i \in DOMAIN q_list :
                  /\ pending[q_list[i]] # tokens_done
                  /\ \A j \in 1..(i - 1) : pending[q_list[j]] = tokens_done
    IN  [matched |-> tokens_done \ {End},
         mismatches |-> bad_queue_strs(q_list[at], q_list, tokens_done)]

\* the q.get() task of a queue finishes with the head of the queue
GetterRun(q) ==
    /\ Idle
    /\ getter[q] = "waiting"
    /\ items[q] # <<>>
    /\ result' = [result EXCEPT ![q] = Head(items[q])]
    /\ items' = [items EXCEPT ![q] = Tail(items[q])]
    /\ getter' = [getter EXCEPT ![q] = "got"]
    /\ UNCHANGED <<pending, done, value, pre_sync_met, pc, phase, ret, err,
                   worklist, submitted, put_log, delivered, invoked, nputs>>
    /\ UNCHANGED wiringVars
    /\ UNCHANGED <<fsVars, callVars>>

\* Stepper._get_across, lines 1538-1547: return None for no queues, else make
\* sure every queue not done has a getter
GetAcrossEnter(s) ==
    /\ CanRun(s)
    /\ pc[s] \in {"start", "enter"}
    /\ IF QList(s) = {}
       THEN /\ ret' = [ret EXCEPT ![s] = End]
            /\ pc' = [pc EXCEPT ![s] = "ret"]
            /\ UNCHANGED getter
       ELSE /\ getter' = [q \in DOMAIN getter |->
                            IF q \in QList(s) /\ ~done[q] /\ getter[q] = "none"
                            THEN "waiting" ELSE getter[q]]
            /\ pc' = [pc EXCEPT ![s] = "check"]
            /\ UNCHANGED ret
    /\ UNCHANGED <<items, pending, result, done, value, pre_sync_met, phase, err,
                   worklist, submitted, put_log, delivered, invoked, nputs>>
    /\ UNCHANGED wiringVars
    /\ UNCHANGED <<fsVars, callVars>>

\* Stepper._get_across, lines 1555-1588: one pass of the loop up to the wait
GetAcrossCheck(s) ==
    /\ CanRun(s)
    /\ pc[s] = "check"
    /\ LET tokens_done == Intersection({pending[q] : q \in QList(s)})
       IN  IF desynchronized(tokens_done, {pending[q] : q \in QList(s)})
           THEN /\ err' = [err EXCEPT ![s] = "DesynchronizationError"]
                /\ pc' = [pc EXCEPT ![s] = "error"]
                /\ UNCHANGED <<pending, ret>>
           ELSE IF tokens_done # {}
           THEN \E token \in pop_choices(tokens_done) :
                /\ pending' = [q \in DOMAIN pending |->
                                 IF q \in QList(s) THEN pending[q] \ {token}
                                 ELSE pending[q]]
                /\ ret' = [ret EXCEPT ![s] = token]
                /\ pc' = [pc EXCEPT ![s] = "ret"]
                /\ UNCHANGED err
           ELSE IF Tasks(s) # {}
           THEN /\ pc' = [pc EXCEPT ![s] = "wait"]
                /\ UNCHANGED <<pending, ret, err>>
           ELSE \* nothing to wait for: the loop spins without yielding
                /\ pc' = [pc EXCEPT ![s] = "spin"]
                /\ UNCHANGED <<pending, ret, err>>
    /\ UNCHANGED <<items, getter, result, done, value, pre_sync_met, phase,
                   worklist, submitted, put_log, delivered, invoked, nputs>>
    /\ UNCHANGED wiringVars
    /\ UNCHANGED <<fsVars, callVars>>

\* Stepper._get_across, lines 1589-1607: asyncio.wait returns the finished
\* getters; each result is checked and added to its queue's pending set
GetAcrossWake(s) ==
    /\ CanRun(s)
    /\ pc[s] = "wait"
    /\ LET finished == {q \in Tasks(s) : getter[q] = "got"}
       IN  /\ finished # {}
           /\ getter' = [q \in DOMAIN getter |->
                           IF q \in finished
                           THEN (IF result[q] = End THEN "none" ELSE "waiting")
                           ELSE getter[q]]
           /\ done' = [q \in DOMAIN done |->
                         IF q \in finished /\ result[q] = End THEN TRUE ELSE done[q]]
           /\ IF \E q \in finished : result[q] \in pending[q]
              THEN /\ err' = [err EXCEPT ![s] = "DuplicateTokenError"]
                   /\ pc' = [pc EXCEPT ![s] = "error"]
                   /\ UNCHANGED pending
              ELSE /\ pending' = [q \in DOMAIN pending |->
                                    IF q \in finished THEN pending[q] \cup {result[q]}
                                    ELSE pending[q]]
                   /\ pc' = [pc EXCEPT ![s] = "check"]
                   /\ UNCHANGED err
    /\ UNCHANGED <<items, result, value, pre_sync_met, phase, ret,
                   worklist, submitted, put_log, delivered, invoked, nputs>>
    /\ UNCHANGED wiringVars
    /\ UNCHANGED <<fsVars, callVars>>

\* a pre_sync that accepts any token
pre_sync_any(token) == TRUE

\* Stepper.pre_sync, line 1620: the loop ends when the token is the end token
pre_sync_ok(token) == token = End

\* Stepper.pre_sync after its _get_across call has returned
PreSyncReturn(s) ==
    /\ CanRun(s)
    /\ pc[s] = "ret"
    /\ phase[s] = "sync"
    /\ IF ~pre_sync_ok(ret[s])
       THEN /\ err' = [err EXCEPT ![s] = "PreSyncTokenError"]
            /\ pc' = [pc EXCEPT ![s] = "error"]
            /\ UNCHANGED <<pre_sync_met, phase>>
       ELSE /\ pre_sync_met' = [pre_sync_met EXCEPT ![s] = TRUE]
            /\ phase' = [phase EXCEPT ![s] = "token"]
            /\ pc' = [pc EXCEPT ![s] = "enter"]
            /\ UNCHANGED err
    /\ UNCHANGED <<items, pending, getter, result, done, value, ret,
                   worklist, submitted, put_log, delivered, invoked, nputs>>
    /\ UNCHANGED wiringVars
    /\ UNCHANGED <<fsVars, callVars>>

\* Stepper.get returns inside Stepper.step (lines 1670-1677), and walk either
\* invokes the step body or ends after forwarding the end token
StepReturn(s) ==
    /\ CanRun(s)
    /\ s \in DOMAIN network.steps
    /\ pc[s] = "ret"
    /\ phase[s] = "token"
    /\ value' = [value EXCEPT ![s] = ret[s]]
    /\ delivered' = [delivered EXCEPT ![s] = Append(@, ret[s])]
    /\ IF ret[s] = End
       THEN /\ items' = put(items, s, End)
            /\ put_log' = put(put_log, s, End)
            /\ pc' = [pc EXCEPT ![s] = "done"]
            /\ UNCHANGED invoked
       ELSE /\ invoked' = [invoked EXCEPT ![s] = Append(@, ret[s])]
            /\ pc' = [pc EXCEPT ![s] = "body"]
            /\ UNCHANGED <<items, put_log>>
    /\ UNCHANGED <<pending, getter, result, done, pre_sync_met, phase, ret, err,
                   worklist, submitted, nputs>>
    /\ UNCHANGED wiringVars
    /\ UNCHANGED <<fsVars, callVars>>

\* the step body returns to walk; Stepper.step puts the value of the last
\* iteration and calls get() again.  The body of Step.prompt calls .next() on
\* a generator, which raises AttributeError.
StepBody(s) ==
    /\ CanRun(s)
    /\ pc[s] = "body"
    /\ IF s = "prompt"
       THEN /\ err' = [err EXCEPT ![s] = "AttributeError"]
            /\ pc' = [pc EXCEPT ![s] = "error"]
            /\ UNCHANGED <<items, put_log>>
       ELSE /\ items' = put(items, s, value[s])
            /\ put_log' = put(put_log, s, value[s])
            /\ pc' = [pc EXCEPT ![s] = "enter"]
            /\ UNCHANGED err
    /\ UNCHANGED <<pending, getter, result, done, value, pre_sync_met, phase, ret,
                   worklist, submitted, delivered, invoked, nputs>>
    /\ UNCHANGED wiringVars
    /\ UNCHANGED <<fsVars, callVars>>

-----------------------------------------------------------------------------
(* The task coroutines of run_tasks                                        *)

NumWavs == 2

\* the paths Step.setup works on: cmdargs.dest, the run's progress directory,
\* and per WAV its TransferInfo.wav_progress_dir and TransferInfo.source_link
dest_dir == <<"dest">>
progress_dir == <<"dest", "progress_dir">>
wav_progress_dir(i) == <<"dest", "progress_dir", i>>
source_link(i) == <<"dest", "progress_dir", i, ".source.wav">>

\* the directory a path lies in
parent(path) == SubSeq(path, 1, Len(path) - 1)

\* the outcome of a filesystem operation: the disk after it and the exception
\* it raised ("" when none)
FsResult(d, e) == [disk |-> d, err |-> e]

\* a mkdir that creates nothing and never fails
mkdir_skipped(d, path) == FsResult(d, "")

\* Path.mkdir() and Path.symlink_to(): the path must be new and its parent
\* must exist
mkdir(d, path) ==
    IF path \in d THEN FsResult(d, "FileExistsError")
    ELSE IF parent(path) \notin d THEN FsResult(d, "FileNotFoundError")
    ELSE FsResult(d \cup {path}, "")

\* Step.setup, lines 2070-2075: the run's progress directory
setup_progress_dir(d) ==
    IF continue_from \/ ~act THEN FsResult(d, "") ELSE mkdir(d, progress_dir)

\* Step.setup, lines 2087-2089: the progress directory and source link of WAV i
setup_wav(d, i) ==
    IF ~act THEN FsResult(d, "")
    ELSE LET made == mkdir(d, wav_progress_dir(i))
         IN  IF made.err # "" THEN made ELSE mkdir(made.disk, source_link(i))

\* Step.setup from where it was resumed last (its start when the worklist is
\* still empty) through the filesystem work for the next WAV
setup_fs(d, i) ==
    LET started == IF i = 0 THEN setup_progress_dir(d) ELSE FsResult(d, "")
    IN  IF started.err # "" \/ i = NumWavs THEN started
        ELSE setup_wav(started.disk, i)

\* Step.setup, lines 2077-2093: one pass of the loop over cmdargs.wavs
SetupEmit ==
    /\ CanRun("setup")
    /\ pc["setup"] = "run"
    /\ worklist < NumWavs
    /\ LET fs == setup_fs(disk, worklist)
       IN  /\ disk' = fs.disk
           /\ IF fs.err # ""
              THEN /\ err' = [err EXCEPT !["setup"] = fs.err]
                   /\ pc' = [pc EXCEPT !["setup"] = "error"]
                   /\ UNCHANGED <<worklist, items, put_log>>
              ELSE /\ worklist' = worklist + 1
                   /\ items' = put(items, "setup", worklist' - 1)
                   /\ put_log' = put(put_log, "setup", worklist' - 1)
                   /\ UNCHANGED <<pc, err>>
    /\ UNCHANGED <<pending, getter, result, done, value, pre_sync_met, phase,
                   ret, submitted, delivered, invoked, nputs>>
    /\ UNCHANGED wiringVars
    /\ UNCHANGED <<act, continue_from, callVars>>

\* Step.setup, line 2095
SetupEnd ==
    /\ CanRun("setup")
    /\ pc["setup"] = "run"
    /\ worklist = NumWavs
    /\ LET fs == setup_fs(disk, worklist)
       IN  /\ disk' = fs.disk
           /\ IF fs.err # ""
              THEN /\ err' = [err EXCEPT !["setup"] = fs.err]
                   /\ pc' = [pc EXCEPT !["setup"] = "error"]
                   /\ UNCHANGED <<items, put_log>>
              ELSE /\ items' = put(items, "setup", End)
                   /\ put_log' = put(put_log, "setup", End)
                   /\ pc' = [pc EXCEPT !["setup"] = "done"]
                   /\ UNCHANGED err
    /\ UNCHANGED <<pending, getter, result, done, value, pre_sync_met, phase,
                   ret, worklist, submitted, delivered, invoked, nputs>>
    /\ UNCHANGED wiringVars
    /\ UNCHANGED <<act, continue_from, callVars>>

\* Step.listen, lines 2109-2112: stepper.get() returns in the submit loop
ListenReturn ==
    /\ CanRun("listen")
    /\ pc["listen"] = "ret"
    /\ phase["listen"] = "token"
    /\ value' = [value EXCEPT !["listen"] = ret["listen"]]
    /\ delivered' = [delivered EXCEPT !["listen"] = Append(@, ret["listen"])]
    /\ IF ret["listen"] # End
       THEN /\ submitted' = submitted \cup {ret["listen"]}
            /\ pc' = [pc EXCEPT !["listen"] = "enter"]
       ELSE /\ pc' = [pc EXCEPT !["listen"] = "emit"]
            /\ UNCHANGED submitted
    /\ UNCHANGED <<items, pending, getter, result, done, pre_sync_met, phase,
                   ret, err, worklist, put_log, invoked, nputs>>
    /\ UNCHANGED wiringVars
    /\ UNCHANGED <<fsVars, callVars>>

\* the orders in which as_completed can yield the futures
CompletionOrders(S) == {f \in [1..Cardinality(S) -> S] : Range(f) = S}

\* Step.listen, lines 2114-2119: the tokens are put as their futures complete,
\* then the end token; no put on an unbounded queue suspends
ListenEmit ==
    /\ CanRun("listen")
    /\ pc["listen"] = "emit"
    /\ \E order \in CompletionOrders(submitted) :
         /\ items' = put_all(items, "listen", Append(order, End))
         /\ put_log' = put_all(put_log, "listen", Append(order, End))
    /\ pc' = [pc EXCEPT !["listen"] = "done"]
    /\ UNCHANGED <<pending, getter, result, done, value, pre_sync_met, phase,
                   ret, err, worklist, submitted, delivered, invoked, nputs>>
    /\ UNCHANGED wiringVars
    /\ UNCHANGED <<fsVars, callVars>>

\* Step.reorder, lines 2121-2123: the body is a docstring; the task returns
\* at once without a get or a put
ReorderRun ==
    /\ CanRun("reorder")
    /\ pc["reorder"] = "run"
    /\ pc' = [pc EXCEPT !["reorder"] = "done"]
    /\ UNCHANGED <<items, pending, getter, result, done, value, pre_sync_met,
                   phase, ret, err, worklist, submitted, put_log, delivered,
                   invoked, nputs>>
    /\ UNCHANGED wiringVars
    /\ UNCHANGED <<fsVars, callVars>>

\* the position each coroutine starts at when execute() gathers them: a
\* coroutine in env is an upstream or downstream the model leaves open
StartPc(net, env, s) ==
    IF s \in env THEN "env"
    ELSE IF s \in DOMAIN net.steps \/ s = "listen" THEN "start"
    ELSE "run"

\* the next add() call of the script
ScriptAdd ==
    /\ nadds < Len(script)
    /\ Add(script[nadds + 1])

\* StepNetwork.execute: check_queues(), then the coroutines are gathered with
\* every StepperQueue and Stepper as its __init__ left it
Execute(env) ==
    /\ wstate = "building"
    /\ script # <<>>
    /\ nadds = Len(script)
    /\ UNCHANGED <<network, nadds, script>>
    /\ UNCHANGED <<fsVars, callVars>>
    /\ IF ~check_queues(network)
       THEN /\ wstate' = "rejected"
            /\ UNCHANGED runVars
       ELSE /\ wstate' = "accepted"
            /\ items' = [q \in Queues(network) |-> <<>>]
            /\ pending' = [q \in Queues(network) |-> {}]
            /\ getter' = [q \in Queues(network) |-> "none"]
            /\ result' = [q \in Queues(network) |-> End]
            /\ done' = [q \in Queues(network) |-> FALSE]
            /\ value' = [s \in Coroutines(network) |-> End]
            /\ pre_sync_met' = [s \in Coroutines(network) |-> FALSE]
            /\ pc' = [s \in Coroutines(network) |-> StartPc(network, env, s)]
            /\ phase' = [s \in Coroutines(network) |-> "sync"]
            /\ ret' = [s \in Coroutines(network) |-> End]
            /\ err' = [s \in Coroutines(network) |-> ""]
            /\ put_log' = [q \in Queues(network) |-> <<>>]
            /\ delivered' = [s \in Coroutines(network) |-> <<>>]
            /\ invoked' = [s \in Coroutines(network) |-> <<>>]
            /\ UNCHANGED <<worklist, submitted, nputs>>

StepperNext ==
    \/ \E q \in DOMAIN items : GetterRun(q)
    \/ \E s \in DOMAIN pc : GetAcrossEnter(s)
    \/ \E s \in DOMAIN pc : GetAcrossCheck(s)
    \/ \E s \in DOMAIN pc : GetAcrossWake(s)
    \/ \E s \in DOMAIN pc : PreSyncReturn(s)
    \/ \E s \in DOMAIN pc : StepReturn(s)
    \/ \E s \in DOMAIN pc : StepBody(s)

\* run_tasks: the whole network, every coroutine as written
InitRunTasks ==
    /\ network = StepNetwork
    /\ wstate = "building"
    /\ nadds = 0
    /\ script = run_tasks
    /\ IdleRun
    /\ FreshRun

NextRunTasks ==
    \/ ScriptAdd
    \/ Execute({})
    \/ StepperNext
    \/ SetupEmit
    \/ SetupEnd
    \/ ListenReturn
    \/ ListenEmit
    \/ ReorderRun

SpecRunTasks == InitRunTasks /\ [][NextRunTasks]_vars

-----------------------------------------------------------------------------
(* One stepper fed by arbitrary upstreams                                  *)

MaxSyncFrom == 2
MaxPullFrom == 2
MaxPuts == 4

Tokens == 0..(NumWavs - 1)

UpNames == <<"up1", "up2", "up3">>
SyncNames == <<"sy1", "sy2", "sy3">>

\* a stepped coroutine "walker" with ks sync_from and kp pull_from queues, two
\* send_to queues and one sync_to queue, wired through StepNetwork.add
WalkerCalls(ks, kp) ==
    [i \in 1..kp |-> AddCall(UpNames[i], FALSE, NoneArg, NoneArg, <<"walker">>, NoneArg)]
    \o [i \in 1..ks |-> AddCall(SyncNames[i], FALSE, NoneArg, NoneArg, NoneArg, <<"walker">>)]
    \o <<AddCall("walker", TRUE, SubSeq(SyncNames, 1, ks), SubSeq(UpNames, 1, kp),
                 <<"down", "down2">>, <<"down">>),
         AddCall("down", FALSE, <<"walker">>, <<"walker">>, NoneArg, NoneArg),
         AddCall("down2", FALSE, NoneArg, <<"walker">>, NoneArg, NoneArg)>>

WalkerEnv == Range(UpNames) \cup Range(SyncNames) \cup {"down", "down2"}

\* an upstream left open puts any token on its queue (asyncio.Queue.put)
EnvPut(q, token, max) ==
    /\ Idle
    /\ pc[q[2]] = "env"
    /\ pc[q[3]] # "env"
    /\ nputs < max
    /\ nputs' = nputs + 1
    /\ items' = [items EXCEPT ![q] = Append(@, token)]
    /\ put_log' = [put_log EXCEPT ![q] = Append(@, token)]
    /\ UNCHANGED <<pending, getter, result, done, value, pre_sync_met, pc, phase,
                   ret, err, worklist, submitted, delivered, invoked>>
    /\ UNCHANGED wiringVars
    /\ UNCHANGED <<fsVars, callVars>>

InitWalker ==
    /\ network = StepNetwork
    /\ wstate = "building"
    /\ nadds = 0
    /\ \E ks \in 0..MaxSyncFrom, kp \in 1..MaxPullFrom : script = WalkerCalls(ks, kp)
    /\ IdleRun
    /\ FreshRun

NextWalker ==
    \/ ScriptAdd
    \/ Execute(WalkerEnv)
    \/ StepperNext
    \/ \E q \in DOMAIN items, token \in Tokens \cup {End} : EnvPut(q, token, MaxPuts)

SpecWalker == InitWalker /\ [][NextWalker]_vars

-----------------------------------------------------------------------------
(* run_tasks with the listen branch left open: whatever listen, reorder,    *)
(* autoname and prompt do, prompt's output queue carries some tokens        *)

MaxOpenPuts == 2

OpenEnv == {"listen", "reorder", "autoname", "prompt"}

InitOpen == InitRunTasks

NextOpen ==
    \/ ScriptAdd
    \/ Execute(OpenEnv)
    \/ StepperNext
    \/ SetupEmit
    \/ SetupEnd
    \/ \E q \in DOMAIN items, token \in Tokens \cup {End} : EnvPut(q, token, MaxOpenPuts)

SpecOpen == InitOpen /\ [][NextOpen]_vars

-----------------------------------------------------------------------------
(* run_tasks started on any progress directory: setup, flacenc and xdelta   *)
(* run as written against the disk a first run or an interrupted run left   *)

\* what an interrupted run can have left for the WAVs: any of the per-WAV
\* directories, each with or without its source link
WavLeftovers ==
    {S \in SUBSET ({wav_progress_dir(i) : i \in 0..(NumWavs - 1)}
                     \cup {source_link(i) : i \in 0..(NumWavs - 1)}) :
        \A i \in 0..(NumWavs - 1) : source_link(i) \in S => wav_progress_dir(i) \in S}

\* validate_args: --continue names an existing directory; without it the
\* destination holds no progress directory yet
InitSetup ==
    /\ network = StepNetwork
    /\ wstate = "building"
    /\ nadds = 0
    /\ script = run_tasks
    /\ IdleRun
    /\ act \in BOOLEAN
    /\ continue_from \in BOOLEAN
    /\ IF continue_from
       THEN \E S \in WavLeftovers : disk = {dest_dir, progress_dir} \cup S
       ELSE disk = {dest_dir}
    /\ called = NoCall
    /\ outcome = NoCall

NextSetup ==
    \/ ScriptAdd
    \/ Execute(OpenEnv)
    \/ StepperNext
    \/ SetupEmit
    \/ SetupEnd

SpecSetup == InitSetup /\ [][NextSetup]_vars

-----------------------------------------------------------------------------
(* Speech parsing: words_to_timestamp and the grok_* functions             *)

\* to_num returns None for a word that is no number
NoNumber == -1

\* the absent word: cur_word() past the end of the list, or text that is None
NoWord == "<None>"

\* TimestampWords.days, months and ordinals for the words of the model's
\* vocabulary: the position reverse_hashify gives each word
days == [monday |-> 1]
months == [may |-> 4]
ordinals == [first |-> 1]

\* the words w2n.word_to_num turns into a number
number_words ==
    [one |-> 1, two |-> 2, five |-> 5, nine |-> 9, nineteen |-> 19, twenty |-> 20,
     thirty |-> 30, ninety |-> 90, hundred |-> 100, thousand |-> 1000]

\* to_num(word)
to_num(word) ==
    IF word \in DOMAIN number_words THEN number_words[word] ELSE NoNumber

\* what a grok function hands back: the exception raised ("" when none), the
\* value, and the words left in the list
Grokked(e, v, rest) == [exc |-> e, value |-> v, rest |-> rest]

\* pop_optional_words: the words popped and the words left
RECURSIVE pop_optional_words(_, _)
pop_optional_words(word_list, opt_words) ==
    IF opt_words = <<>> THEN [popped |-> <<>>, rest |-> word_list]
    ELSE IF word_list # <<>> /\ Head(word_list) = Head(opt_words)
         THEN LET more == pop_optional_words(Tail(word_list), Tail(opt_words))
              IN  [popped |-> <<Head(opt_words)>> \o more.popped, rest |-> more.rest]
         ELSE pop_optional_words(word_list, Tail(opt_words))

\* grok_digit_pair
grok_digit_pair(word_list) ==
    IF word_list = <<>> \/ to_num(Head(word_list)) = NoNumber
    THEN Grokked("", 0, word_list)
    ELSE LET num == to_num(Head(word_list))
             rest == Tail(word_list)
         IN  IF rest # <<>> /\ (num = 0 \/ num >= 20)
                /\ to_num(Head(rest)) # NoNumber /\ to_num(Head(rest)) < 10
             THEN Grokked("", num + to_num(Head(rest)), Tail(rest))
             ELSE Grokked("", num, rest)

seconds_words == <<"second", "seconds">>
minutes_words == <<"minute", "minutes">>
hour_words == <<"hundred", "hour", "hours", "oh", "clock", "oclock", "o'clock", "and">>
minute_tail_words == <<"oh", "clock", "oclock", "o'clock", "minute", "minutes", "and">>

\* grok_time_words: value is <<hour, minute, second>>
grok_time_words(word_list) ==
    LET h == grok_digit_pair(word_list)
        s1 == pop_optional_words(h.rest, seconds_words)
        done1 == s1.popped # <<>>
        m1 == pop_optional_words(s1.rest, minutes_words)
    IN  IF ~done1 /\ m1.popped # <<>>
        THEN \* "N minutes [and] [S [seconds]]"
             LET a == pop_optional_words(m1.rest, <<"and">>)
                 sec == grok_digit_pair(a.rest)
                 t == pop_optional_words(sec.rest, seconds_words)
             IN  Grokked("", <<0, h.value, sec.value>>, t.rest)
        ELSE LET from == IF done1 THEN s1.rest ELSE m1.rest
                 hw == pop_optional_words(from, hour_words)
                 m == grok_digit_pair(hw.rest)
                 s2 == pop_optional_words(m.rest, seconds_words)
                 hour == IF done1 THEN 0 ELSE h.value
             IN  IF s2.popped # <<>>
                 THEN Grokked("", <<hour, 0, m.value>>, s2.rest)
                 ELSE LET mt == pop_optional_words(s2.rest, minute_tail_words)
                      IN  IF done1
                          THEN Grokked("", <<hour, m.value, h.value>>, mt.rest)
                          ELSE LET sec == grok_digit_pair(mt.rest)
                                   t == pop_optional_words(sec.rest, seconds_words)
                               IN  Grokked("", <<hour, m.value, sec.value>>, t.rest)

\* grok_day_of_month
grok_day_of_month(word_list) ==
    IF word_list = <<>> THEN Grokked("TimestampGrokError", 0, word_list)
    ELSE LET num == to_num(word_list[1])
             day0 == IF num = NoNumber THEN 0 ELSE num
             idx == IF num = NoNumber THEN 0 ELSE 1
         IN  IF ~(Len(word_list) > idx /\ word_list[idx + 1] \in DOMAIN ordinals)
             THEN Grokked("TimestampGrokError", 0, word_list)
             ELSE LET day == day0 + ordinals[word_list[idx + 1]]
                  IN  IF day < 1 \/ day > 31
                      THEN Grokked("TimestampGrokError", 0, word_list)
                      ELSE Grokked("", day, SubSeq(word_list, idx + 2, Len(word_list)))

\* cur_word() of grok_year
cur_word(word_list, idx) == IF Len(word_list) > idx THEN word_list[idx + 1] ELSE NoWord

\* the year parsed so far and the number of words used for it
YearAt(y, idx) == [year |-> y, idx |-> idx]

\* if cur_word() == word: idx += 1
skip_word(word_list, at, word) ==
    IF cur_word(word_list, at.idx) = word THEN YearAt(at.year, at.idx + 1) ELSE at

\* num = to_num(cur_word()); if num is not None and num < 10: idx += 1; year += num
add_ones(word_list, at) ==
    LET num == to_num(cur_word(word_list, at.idx))
    IN  IF num # NoNumber /\ num < 10 THEN YearAt(at.year + num, at.idx + 1) ELSE at

\* grok_year, lines 1175-1214: a year said as "N thousand ..."
year_thousands(word_list, at) ==
    LET a == skip_word(word_list, at, "and")
        num == to_num(cur_word(word_list, a.idx))
        b == YearAt(a.year, a.idx + 1)
    IN  IF num = NoNumber THEN a
        ELSE IF num < 10
        THEN IF cur_word(word_list, b.idx) = "hundred"
             THEN LET c == skip_word(word_list, YearAt(b.year + num * 100, b.idx + 1), "and")
                      tens == to_num(cur_word(word_list, c.idx))
                  IN  IF tens = NoNumber THEN c
                      ELSE add_ones(word_list, YearAt(c.year + tens, c.idx + 1))
             ELSE YearAt(b.year + num, b.idx)
        ELSE IF num < 20 THEN YearAt(b.year + num, b.idx)
        ELSE IF num < 30 THEN add_ones(word_list, YearAt(b.year + num, b.idx))
        ELSE b

\* grok_year, lines 1216-1247: a year said as two doublets; value NoNumber
\* stands for the missing second doublet
year_doublets(word_list, year0) ==
    LET num0 == to_num(cur_word(word_list, 1))
        a == IF year0 > 19 /\ num0 # NoNumber /\ num0 < 10
             THEN YearAt((year0 + num0) * 100, 2) ELSE YearAt(year0 * 100, 1)
        hundred == cur_word(word_list, a.idx) = "hundred"
        b == skip_word(word_list, skip_word(word_list, a, "hundred"), "and")
        num == to_num(cur_word(word_list, b.idx))
    IN  IF num # NoNumber
        THEN IF num = 0 \/ (10 <= num /\ num < 30)
             THEN add_ones(word_list, YearAt(b.year + num, b.idx + 1))
             ELSE YearAt(b.year + num, b.idx + 1)
        ELSE IF ~hundred THEN YearAt(NoNumber, b.idx)
        ELSE b

\* grok_year
grok_year(word_list) ==
    LET year0 == to_num(cur_word(word_list, 0))
    IN  IF year0 = NoNumber THEN Grokked("TimestampGrokError", 0, word_list)
        ELSE IF 1 <= year0 /\ year0 <= 3 /\ cur_word(word_list, 1) # "thousand"
        THEN Grokked("TimestampGrokError", 0, word_list)
        ELSE LET at == IF 1 <= year0 /\ year0 <= 3
                         THEN year_thousands(word_list, YearAt(year0 * 1000, 2))
                       ELSE IF 19 <= year0 /\ year0 <= 29
                         THEN year_doublets(word_list, year0)
                       ELSE YearAt(year0, 1)
             IN  IF at.year = NoNumber \/ at.year < 1900 \/ at.year > 2999
                 THEN Grokked("TimestampGrokError", 0, word_list)
                 ELSE Grokked("", at.year, SubSeq(word_list, at.idx + 1, Len(word_list)))

\* pop the optional day of week at the head of the list
pop_day_of_week(word_list) ==
    IF word_list # <<>> /\ Head(word_list) \in DOMAIN days THEN Tail(word_list)
    ELSE word_list

\* grok_date_words: value is <<year, month, day>>; the assert at line 1276
\* fails when the word after the optional day of week is no month name
grok_date_words(word_list) ==
    LET after_dow == pop_day_of_week(word_list)
    IN  IF ~(after_dow # <<>> /\ Head(after_dow) \in DOMAIN months)
        THEN Grokked("AssertionError", <<>>, after_dow)
        ELSE LET month == months[Head(after_dow)] + 1
                 day == grok_day_of_month(Tail(after_dow))
             IN  IF day.exc # "" THEN Grokked(day.exc, <<>>, day.rest)
                 ELSE LET year == grok_year(pop_day_of_week(day.rest))
                      IN  IF year.exc # "" THEN Grokked(year.exc, <<>>, year.rest)
                          ELSE Grokked("", <<year.value, month, day.value>>, year.rest)

\* the index of the first day of week or month name in words, 0 when none
RECURSIVE first_date_word(_, _)
first_date_word(words, i) ==
    IF i > Len(words) THEN 0
    ELSE IF words[i] \in DOMAIN days \cup DOMAIN months THEN i
    ELSE first_date_word(words, i + 1)

\* days in the month, for the range check of datetime.datetime()
days_in_month(year, month) ==
    IF month = 2
    THEN (IF year % 4 = 0 /\ (year % 100 # 0 \/ year % 400 = 0) THEN 29 ELSE 28)
    ELSE IF month \in {4, 6, 9, 11} THEN 30 ELSE 31

\* what words_to_timestamp returns or raises
Returned(v) == [kind |-> "return", value |-> v]
Raised(e) == [kind |-> "raise", value |-> e]

\* words_to_timestamp(text): text is a sequence of words (text.split()) or
\* <<NoWord>> for None
words_to_timestamp(text) ==
    IF text = <<NoWord>> THEN Raised("TimestampGrokError")
    ELSE LET i == first_date_word(text, 1)
         IN  IF i = 0 THEN Raised("TimestampGrokError")
             ELSE LET time == grok_time_words(SubSeq(text, 1, i - 1))
                      date == grok_date_words(SubSeq(text, i, Len(text)))
                  IN  IF date.exc # "" THEN Raised(date.exc)
                      ELSE IF \/ time.value[1] > 23 \/ time.value[2] > 59
                              \/ time.value[3] > 59
                              \/ date.value[3] > days_in_month(date.value[1], date.value[2])
                      THEN Raised("ValueError")
                      ELSE Returned([timestamp |-> date.value \o time.value,
                                     extra |-> date.rest])

-----------------------------------------------------------------------------
(* The progress sidecar: AudioInfo, TaketakeJsonEncoder, read_json          *)

\* an attribute that is None, and one that holds v
Absent == <<>>
Present(v) == <<v>>

\* the dataclasses TimeRange and AudioInfo, and datetime.datetime
TimeRange(start, duration) ==
    [cls |-> "TimeRange", start |-> start, duration |-> duration]

AudioInfo(duration_s, speech_range, recognized_speech, parsed_timestamp, extra_speech) ==
    [cls |-> "AudioInfo", duration_s |-> duration_s, speech_range |-> speech_range,
     recognized_speech |-> recognized_speech, parsed_timestamp |-> parsed_timestamp,
     extra_speech |-> extra_speech]

datetime(fields) == [cls |-> "datetime", fields |-> fields]

\* a JSON object: the marker key the encoder added (none for a plain dict)
\* and the other members
json_object(marker, members) == [cls |-> "dict", marker |-> marker, members |-> members]

\* the day number of a civil date, counted from 1970-01-01
days_from_civil(y, m, d) ==
    LET yy == IF m <= 2 THEN y - 1 ELSE y
        era == yy \div 400
        yoe == yy - era * 400
        mp == IF m > 2 THEN m - 3 ELSE m + 9
        doy == (153 * mp + 2) \div 5 + d - 1
        doe == yoe * 365 + yoe \div 4 - yoe \div 100 + doy
    IN  era * 146097 + doe - 719468

\* the civil date <<y, m, d>> of a day number
civil_from_days(z) ==
    LET zz == z + 719468
        era == zz \div 146097
        doe == zz - era * 146097
        yoe == (doe - doe \div 1460 + doe \div 36524 - doe \div 146096) \div 365
        doy == doe - (365 * yoe + yoe \div 4 - yoe \div 100)
        mp == (5 * doy + 2) \div 153
        d == doy - (153 * mp + 2) \div 5 + 1
        m == IF mp < 10 THEN mp + 3 ELSE mp - 9
    IN  <<(IF m <= 2 THEN yoe + era * 400 + 1 ELSE yoe + era * 400), m, d>>

\* datetime.timestamp(): the POSIX time as <<days, seconds into the day>>
\* (the local zone taken as UTC; no timezone info is dumped)
timestamp(dt) ==
    <<days_from_civil(dt.fields[1], dt.fields[2], dt.fields[3]),
      dt.fields[4] * 3600 + dt.fields[5] * 60 + dt.fields[6]>>

\* datetime.datetime.fromtimestamp()
fromtimestamp(ts) ==
    datetime(civil_from_days(ts[1])
             \o <<ts[2] \div 3600, (ts[2] % 3600) \div 60, ts[2] % 60>>)

\* dataclasses.asdict: the fields as a dict, nested dataclasses turned into
\* plain dicts as well
asdict(obj) ==
    [duration_s |-> obj.duration_s,
     speech_range |->
        IF obj.speech_range = Absent THEN Absent
        ELSE Present(json_object(<<>>, [start |-> obj.speech_range[1].start,
                                        duration |-> obj.speech_range[1].duration])),
     recognized_speech |-> obj.recognized_speech,
     parsed_timestamp |-> obj.parsed_timestamp,
     extra_speech |-> obj.extra_speech]

\* TaketakeJsonEncoder.default for a datetime
default_datetime(dt) == json_object(<<"__datetime__", "true">>, [timestamp |-> timestamp(dt)])

\* TaketakeJsonEncoder.default for a dataclass instance, with json.dumps
\* encoding what default returned: the datetime inside goes through default
default_dataclass(obj) ==
    LET d == asdict(obj)
    IN  json_object(<<"__dataclass__", obj.cls>>,
          [d EXCEPT !.parsed_timestamp =
              IF @ = Absent THEN Absent ELSE Present(default_datetime(@[1]))])

\* write_json(fpath, obj): the content of the file
write_json(obj) == default_dataclass(obj)

\* taketake_json_decode(d) for a dict whose members are decoded already
taketake_json_decode(d) ==
    IF d.marker # <<>> /\ d.marker[1] = "__dataclass__"
    THEN IF d.marker[2] = "AudioInfo"
         THEN AudioInfo(d.members.duration_s, d.members.speech_range,
                        d.members.recognized_speech, d.members.parsed_timestamp,
                        d.members.extra_speech)
         ELSE IF d.marker[2] = "TimeRange"
         THEN TimeRange(d.members.start, d.members.duration)
         ELSE json_object(<<>>, d.members)
    ELSE IF d.marker # <<>> /\ d.marker[1] = "__datetime__"
    THEN fromtimestamp(d.members.timestamp)
    ELSE d

\* the object_hook applied to an optional member that is a dict
decode_member(member) ==
    IF member = Absent THEN Absent ELSE Present(taketake_json_decode(member[1]))

\* read_json(fpath): json.loads calls the object_hook on the inner dicts
\* first, then on the outer one
read_json(content) ==
    IF content.marker # <<>> /\ content.marker[1] = "__dataclass__"
       /\ content.marker[2] = "AudioInfo"
    THEN taketake_json_decode(
           [content EXCEPT !.members.speech_range = decode_member(@),
                           !.members.parsed_timestamp = decode_member(@)])
    ELSE taketake_json_decode(content)

\* the AudioInfo values the model writes and reads
Durations == {Absent, Present(3), Present(15), Present(90)}
SpeechRanges == {Absent, Present(TimeRange(0, 3))}
Transcripts == {Absent, Present("may first two thousand")}
Datetimes ==
    {Absent, Present(datetime(<<2000, 5, 1, 0, 0, 0>>)),
     Present(datetime(<<2021, 2, 28, 19, 38, 59>>))}
ExtraSpeeches == {<<>>, <<"hello">>}

AudioInfos ==
    {AudioInfo(d, r, t, p, e) :
        d \in Durations, r \in SpeechRanges, t \in Transcripts,
        p \in Datetimes, e \in ExtraSpeeches}

\* no network is built or run while a helper function is under study
NoRun ==
    /\ network = StepNetwork
    /\ wstate = "building"
    /\ nadds = 0
    /\ script = <<>>
    /\ IdleRun
    /\ continue_from = FALSE

InitJson ==
    /\ NoRun
    /\ act = TRUE
    /\ disk = {}
    /\ \E a \in AudioInfos : called = [fn |-> "write_json", obj |-> a]
    /\ outcome = NoCall

\* write_json(audioinfo_fpath, audioinfo)
WriteJson ==
    /\ called # NoCall
    /\ called.fn = "write_json"
    /\ outcome = NoCall
    /\ outcome' = [file |-> Present(write_json(called.obj)), value |-> Absent]
    /\ UNCHANGED <<wiringVars, runVars, fsVars, called>>

\* read_json(audioinfo_fpath)
ReadJson ==
    /\ outcome # NoCall
    /\ called.fn = "write_json"
    /\ outcome.value = Absent
    /\ outcome' = [outcome EXCEPT !.value = Present(read_json(outcome.file[1]))]
    /\ UNCHANGED <<wiringVars, runVars, fsVars, called>>

NextJson ==
    \/ WriteJson
    \/ ReadJson

SpecJson == InitJson /\ [][NextJson]_vars

-----------------------------------------------------------------------------
(* listen_to_wav and the collection of its result in Step.listen            *)

\* what listen_to_wav did: returned or raised (kind, value), the sidecar file
\* afterwards, and the external tools it ran
Listened(kind, v, sidecar, tools) ==
    [kind |-> kind, value |-> v, sidecar |-> sidecar, tools |-> tools]

\* a listen_to_wav that lets every exception of the recognition through
catches_nothing(exc) == FALSE

\* listen_to_wav, line 2057: except (NoSuitableAudioSpan, TimestampGrokError)
catches(exc) == exc \in {"NoSuitableAudioSpan", "TimestampGrokError"}

\* a listen_to_wav that never finds the sidecar
never_exists(sidecar) == FALSE

\* listen_to_wav, line 2041: audioinfo_fpath.exists()
exists(sidecar) == sidecar # Absent

\* extract_timestamp_from_audio, lines 1359-1361, once the span is found:
\* heard is audioinfo with the span and the text, parsed what
\* words_to_timestamp did with the text
extract_parsed(heard, parsed) ==
    IF parsed.kind = "raise" THEN [exc |-> parsed.value, audioinfo |-> heard]
    ELSE [exc |-> "",
          audioinfo |-> [heard EXCEPT
              !.parsed_timestamp = Present(datetime(parsed.value.timestamp)),
              !.extra_speech = parsed.value.extra]]

\* extract_timestamp_from_audio(fpath, audioinfo): the exception raised ("" when
\* none) and audioinfo as the call left it.  span is what find_likely_audio_span
\* finds (Absent: NoSuitableAudioSpan), text what process_speech returns.
extract_timestamp_from_audio(audioinfo, span, text) ==
    IF span = Absent THEN [exc |-> "NoSuitableAudioSpan", audioinfo |-> audioinfo]
    ELSE CHOOSE extracted \in
           {extract_parsed([audioinfo EXCEPT
                              !.speech_range = span,
                              !.recognized_speech =
                                  IF text = <<NoWord>> THEN Absent ELSE Present(text)],
                           parsed) :
              parsed \in {words_to_timestamp(text)}} : TRUE

\* the tools extract_timestamp_from_audio runs
extract_tools(span) ==
    IF span = Absent THEN {"detect_silence"} ELSE {"detect_silence", "process_speech"}

\* a listen_to_wav that dumps the audioinfo whether the run acts or not
listen_extracted_dumps(acting, extracted, tools) ==
    IF extracted.exc # "" /\ ~catches(extracted.exc)
    THEN Listened("raise", extracted.exc, Absent, tools)
    ELSE Listened("return", extracted.audioinfo,
                  Present(write_json(extracted.audioinfo)), tools)

\* listen_to_wav, lines 2057-2060, after extract_timestamp_from_audio
listen_extracted(acting, extracted, tools) ==
    IF extracted.exc # "" /\ ~catches(extracted.exc)
    THEN Listened("raise", extracted.exc, Absent, tools)
    ELSE Listened("return", extracted.audioinfo,
                  IF acting THEN Present(write_json(extracted.audioinfo)) ELSE Absent,
                  tools)

\* listen_to_wav(xinfo, token), lines 2050-2060: no sidecar yet.  probe is
\* what get_file_duration returns (Absent: InvalidMediaFile).
listen_fresh(acting, probe, span, text) ==
    IF probe = Absent
    THEN Listened("raise", "InvalidMediaFile", Absent, {"get_file_duration"})
    ELSE CHOOSE listened \in
           {listen_extracted(acting, extracted,
                             {"get_file_duration"} \cup extract_tools(span)) :
              extracted \in {extract_timestamp_from_audio(
                                 AudioInfo(probe, Absent, Absent, Absent, <<>>),
                                 span, text)}} : TRUE

\* listen_to_wav(xinfo, token), lines 2041-2048: the sidecar is loaded
listen_stored(sidecar) ==
    LET audioinfo == read_json(sidecar[1])
    IN  IF audioinfo.cls # "AudioInfo"
        THEN Listened("raise", "InvalidProgressFile", sidecar, {})
        ELSE Listened("return", audioinfo, sidecar, {})

\* listen_to_wav(xinfo, token)
listen_to_wav(sidecar, acting, probe, span, text) ==
    IF exists(sidecar) THEN listen_stored(sidecar)
    ELSE listen_fresh(acting, probe, span, text)

\* what the recognizer can return: None, or one of these texts
Heard ==
    {<<NoWord>>, <<"hello">>, <<"monday">>, <<"may", "first", "two", "thousand">>,
     <<"two", "may", "first", "twenty", "twenty", "hello">>,
     <<"thousand", "may", "first", "two", "thousand">>}

\* the audioinfo an earlier run dumped for a recording of 15 s: no span found,
\* nothing recognized, a text that is no timestamp, and two timestamps
Dumped ==
    {AudioInfo(Present(15), Absent, Absent, Absent, <<>>),
     AudioInfo(Present(15), Present(TimeRange(0, 3)), Absent, Absent, <<>>),
     AudioInfo(Present(15), Present(TimeRange(0, 3)), Present(<<"hello">>),
               Absent, <<>>),
     AudioInfo(Present(15), Present(TimeRange(0, 3)),
               Present(<<"may", "first", "two", "thousand">>),
               Present(datetime(<<2000, 5, 1, 0, 0, 0>>)), <<>>),
     AudioInfo(Present(15), Present(TimeRange(0, 3)),
               Present(<<"two", "may", "first", "twenty", "twenty", "hello">>),
               Present(datetime(<<2020, 5, 1, 2, 0, 0>>)), <<"hello">>)}

\* the sidecars an earlier run can have left: what listen_to_wav writes, and
\* a JSON file that holds no AudioInfo
Sidecars ==
    {Absent, Present(json_object(<<>>, [start |-> 0, duration |-> 3]))}
      \cup {Present(write_json(audioinfo)) : audioinfo \in Dumped}

InitListen ==
    /\ NoRun
    /\ act \in BOOLEAN
    /\ disk = {}
    /\ \E sidecar \in Sidecars, probe \in {Absent, Present(15)},
          span \in SpeechRanges, text \in Heard :
         called = [fn |-> "listen_to_wav", sidecar |-> sidecar, probe |-> probe,
                   span |-> span, text |-> text]
    /\ outcome = NoCall

\* the executor runs listen_to_wav(worklist[token], token)
ListenToWav ==
    /\ called # NoCall
    /\ called.fn = "listen_to_wav"
    /\ outcome = NoCall
    /\ outcome' = [result |-> listen_to_wav(called.sidecar, act, called.probe,
                                            called.span, called.text),
                   collected |-> FALSE, audioinfo |-> Absent, emitted |-> FALSE]
    /\ UNCHANGED <<wiringVars, runVars, fsVars, called>>

\* Step.listen, lines 2114-2117: future.result() is stored in the worklist
\* entry and the token is put, or the exception is raised again
ListenCollect ==
    /\ outcome # NoCall
    /\ called.fn = "listen_to_wav"
    /\ ~outcome.collected
    /\ outcome' = IF outcome.result.kind = "return"
                  THEN [outcome EXCEPT !.collected = TRUE,
                                       !.audioinfo = Present(outcome.result.value),
                                       !.emitted = TRUE]
                  ELSE [outcome EXCEPT !.collected = TRUE]
    /\ UNCHANGED <<wiringVars, runVars, fsVars, called>>

NextListen ==
    \/ ListenToWav
    \/ ListenCollect

SpecListen == InitListen /\ [][NextListen]_vars

-----------------------------------------------------------------------------
(* par2_create: the choice of the PAR2 block size                           *)

\* Config.par2_base_blocksize
par2_base_blocksize == 4096

\* Config.par2_max_num_blocks
par2_max_num_blocks == 10000

\* x rounded down to a multiple of n, n when that is zero
get_nearest_n_below(x, n) ==
    LET rounded == (x \div n) * n
    IN  IF rounded # 0 THEN rounded ELSE n

\* get_nearest_n(x, n): -(-x // n) * n, n when that is zero
get_nearest_n(x, n) ==
    LET rounded == (0 - ((0 - x) \div n)) * n
    IN  IF rounded # 0 THEN rounded ELSE n

\* a * b // c for naturals a, b and c > 0, split so that no intermediate
\* value leaves the 32 bit integers of the checker:
\* (c*q + r)*b // c = q*b + r*b // c
muldiv(a, b, c) == (a \div c) * b + ((a % c) * b) \div c

\* par2_create, lines 742-744: num_par2_bytes, min_blocksize and blocksize
par2_sizes(filesize, num_par2_files, percent_redundancy) ==
    LET num_par2_bytes == muldiv(filesize, num_par2_files * percent_redundancy, 100)
        min_blocksize == num_par2_bytes \div par2_max_num_blocks
    IN  [num_par2_bytes |-> num_par2_bytes,
         min_blocksize |-> min_blocksize,
         blocksize |-> get_nearest_n(min_blocksize, par2_base_blocksize)]

GiB == 1024 * 1024 * 1024

MaxPar2Files == 3

\* file sizes around the points where the block size changes (with 2 volumes
\* at 5% min_blocksize is filesize // 100000)
FileSizes ==
    {0, 1, 99999, 100000, 409500000, 409599999, 409600000, 409699999, 409700000,
     819200000, 819299999, 819300000, GiB}

Redundancies == {0, 1, 5, 10}

InitPar2 ==
    /\ NoRun
    /\ act = TRUE
    /\ disk = {}
    /\ \E filesize \in FileSizes, num_par2_files \in 0..MaxPar2Files,
          percent_redundancy \in Redundancies :
         called = [fn |-> "par2_create", filesize |-> filesize,
                   num_par2_files |-> num_par2_files,
                   percent_redundancy |-> percent_redundancy]
    /\ outcome = NoCall

\* par2_create(f, num_par2_files, percent_redundancy) up to the par2 command
Par2Create ==
    /\ called # NoCall
    /\ called.fn = "par2_create"
    /\ outcome = NoCall
    /\ outcome' = par2_sizes(called.filesize, called.num_par2_files,
                             called.percent_redundancy)
    /\ UNCHANGED <<wiringVars, runVars, fsVars, called>>

NextPar2 == Par2Create

SpecPar2 == InitPar2 /\ [][NextPar2]_vars

-----------------------------------------------------------------------------
(* encode_xdelta_from_flac_to_wav: flac -c -d flac_file | xdelta3 -s wav_file *)

\* the exit codes of a child: success, two failures, killed by SIGPIPE
ExitCodes == {0, 1, 2, -13}

Children == {"p_flacdec", "p_xdelta"}

\* Process.returncode before the child has exited: None
StillRunning == Absent

InitEncode ==
    /\ NoRun
    /\ act = TRUE
    /\ disk = {}
    /\ \E codes \in [Children -> ExitCodes] :
         called = [fn |-> "encode_xdelta_from_flac_to_wav", codes |-> codes]
    /\ outcome = [at |-> "open", spawned |-> {}, waited |-> {},
                  returncode |-> [c \in Children |-> StillRunning], result |-> NoCall]

\* lines 554-564: the delta file is opened and flac is started
EncodeSpawnFlac ==
    /\ called # NoCall
    /\ called.fn = "encode_xdelta_from_flac_to_wav"
    /\ outcome.at = "open"
    /\ outcome' = [outcome EXCEPT !.at = "flac", !.spawned = @ \cup {"p_flacdec"}]
    /\ UNCHANGED <<wiringVars, runVars, fsVars, called>>

\* lines 566-571: xdelta3 is started
EncodeSpawnXdelta ==
    /\ called # NoCall
    /\ called.fn = "encode_xdelta_from_flac_to_wav"
    /\ outcome.at = "flac"
    /\ outcome' = [outcome EXCEPT !.at = "xdelta", !.spawned = @ \cup {"p_xdelta"}]
    /\ UNCHANGED <<wiringVars, runVars, fsVars, called>>

\* a started child exits with its code
ChildExit(c) ==
    /\ called # NoCall
    /\ called.fn = "encode_xdelta_from_flac_to_wav"
    /\ c \in outcome.spawned
    /\ outcome.returncode[c] = StillRunning
    /\ outcome' = [outcome EXCEPT !.returncode[c] = Present(called.codes[c])]
    /\ UNCHANGED <<wiringVars, runVars, fsVars, called>>

\* line 573: await p_xdelta.wait()
EncodeWaitXdelta ==
    /\ called # NoCall
    /\ called.fn = "encode_xdelta_from_flac_to_wav"
    /\ outcome.at = "xdelta"
    /\ outcome.returncode["p_xdelta"] # StillRunning
    /\ outcome' = [outcome EXCEPT !.at = "waited", !.waited = @ \cup {"p_xdelta"}]
    /\ UNCHANGED <<wiringVars, runVars, fsVars, called>>

\* lines 574-575: await p_flacdec.wait(); return p_flacdec, p_xdelta
EncodeWaitFlac ==
    /\ called # NoCall
    /\ called.fn = "encode_xdelta_from_flac_to_wav"
    /\ outcome.at = "waited"
    /\ outcome.returncode["p_flacdec"] # StillRunning
    /\ outcome' = [outcome EXCEPT !.at = "done", !.waited = @ \cup {"p_flacdec"},
                                  !.result = Returned(outcome.returncode)]
    /\ UNCHANGED <<wiringVars, runVars, fsVars, called>>

NextEncode ==
    \/ EncodeSpawnFlac
    \/ EncodeSpawnXdelta
    \/ \E c \in Children : ChildExit(c)
    \/ EncodeWaitXdelta
    \/ EncodeWaitFlac

SpecEncode == InitEncode /\ [][NextEncode]_vars

-----------------------------------------------------------------------------
(* check_xdelta: reading the output of xdelta3 printdelta                   *)

\* a stripped line "key: value" of the output
Field(k, v) == [key |-> k, value |-> v, words |-> <<>>, spaced |-> TRUE]

\* a stripped line without a colon: its words, and whether single spaces
\* separate them
Text(words, spaced) == [key |-> "", value |-> "", words |-> words, spaced |-> spaced]

\* "": what getline gives for a blank line and at the end of the output
nothing == Text(<<>>, TRUE)

\* str(size) for the sizes of the model
decimal == (9 :> "9") @@ (22670 :> "22670")

Sizes == DOMAIN decimal

\* check_xdelta, lines 618-624
expected_vcdiffs(expected_size) ==
    [k \in {"VCDIFF header indicator", "VCDIFF copy window length",
            "VCDIFF copy window offset", "VCDIFF target window length",
            "VCDIFF data section length"} |->
       CASE k = "VCDIFF header indicator" -> Present("VCD_APPHEADER")
         [] k = "VCDIFF copy window length" -> Present(decimal[expected_size])
         [] k = "VCDIFF copy window offset" -> Present("0")
         [] k = "VCDIFF target window length" -> Present(decimal[expected_size])
         [] k = "VCDIFF data section length" -> Present("0")]

\* check_xdelta, line 626
header_line ==
    Text(<<"Offset", "Code", "Type1", "Size1", "@Addr1", "+", "Type2", "Size2",
           "@Addr2">>, TRUE)

\* check_xdelta, line 627
expected_instr(expected_size) ==
    <<"000000", "019", "CPY_0", decimal[expected_size], "@0">>

\* getline(), lines 638-643, as the line_num-th call
getline(stdout, line_num) ==
    IF line_num <= Len(stdout) THEN stdout[line_num] ELSE nothing

\* check_xdelta, lines 662-672: the loop over the "key: value" lines, from the
\* line_num-th line on; expected maps the keys not found yet to their value
RECURSIVE read_vcdiffs(_, _, _)
read_vcdiffs(stdout, line_num, expected) ==
    LET line == getline(stdout, line_num)
    IN  IF line = nothing \/ line.key = ""
        THEN [failed |-> FALSE, line_num |-> line_num, expected |-> expected]
        ELSE IF line.key \in DOMAIN expected
        THEN IF expected[line.key] = Present(line.value)
             THEN read_vcdiffs(stdout, line_num + 1,
                               [expected EXCEPT ![line.key] = Absent])
             ELSE [failed |-> TRUE, line_num |-> line_num, expected |-> expected]
        ELSE read_vcdiffs(stdout, line_num + 1, expected)

\* a reader that takes the end of the output for granted
at_eof_assumed(p, line_num) == TRUE

\* p.stdout.at_eof() after line_num calls of getline: the end was read, or
\* the last line was read and the end of the stream has arrived already
at_eof(p, line_num) ==
    \/ line_num > Len(p.stdout)
    \/ line_num = Len(p.stdout) /\ p.eof_fed

\* check_xdelta(xdelta_file, expected_size, target_size), where p is what the
\* xdelta3 printdelta child does: its output lines, whether it writes to
\* stderr, its exit code, and whether the end of its output has arrived when
\* the last line is read
check_xdelta(expected_size, target_size, p) ==
    IF expected_size # target_size THEN Raised("XdeltaMismatch")
    ELSE LET vcdiffs == read_vcdiffs(p.stdout, 1, expected_vcdiffs(expected_size))
             n == vcdiffs.line_num
         IN  IF vcdiffs.failed THEN Raised("XdeltaMismatch")
             ELSE IF \E k \in DOMAIN vcdiffs.expected : vcdiffs.expected[k] # Absent
             THEN Raised("XdeltaMismatch")
             ELSE IF getline(p.stdout, n) # header_line THEN Raised("XdeltaMismatch")
             ELSE IF getline(p.stdout, n + 1).words # expected_instr(expected_size)
             THEN Raised("XdeltaMismatch")
             ELSE IF getline(p.stdout, n + 2) # nothing THEN Raised("XdeltaMismatch")
             ELSE IF ~at_eof(p, n + 2) THEN Raised("XdeltaMismatch")
             ELSE IF p.stderr_data THEN Raised("XdeltaMismatch")
             ELSE IF Len(p.stdout) > n + 2 THEN Raised("XdeltaMismatch")
             ELSE IF p.returncode # 0 THEN Raised("XdeltaMismatch")
             ELSE Returned(Absent)

\* what xdelta3 printdelta prints for a delta that is one copy of size bytes
matching_delta(size) ==
    <<Field("VCDIFF version", "0"),
      Field("VCDIFF header indicator", "VCD_APPHEADER"),
      Field("VCDIFF copy window length", decimal[size]),
      Field("VCDIFF copy window offset", "0"),
      Field("VCDIFF target window length", decimal[size]),
      Field("VCDIFF data section length", "0"),
      header_line,
      Text(expected_instr(size), FALSE)>>

\* the lines an output can hold
Lines ==
    {Field(k, v) : k \in DOMAIN expected_vcdiffs(9) \cup {"VCDIFF version"},
                   v \in {"VCD_APPHEADER", "0", "9", "22670"}}
      \cup {header_line, Text(header_line.words, FALSE), nothing,
            Text(<<"000000", "001", "ADD", "1">>, FALSE)}
      \cup {Text(expected_instr(size), FALSE) : size \in Sizes}

Removed(lines, i) == SubSeq(lines, 1, i - 1) \o SubSeq(lines, i + 1, Len(lines))

Inserted(lines, i, l) == SubSeq(lines, 1, i - 1) \o <<l>> \o SubSeq(lines, i, Len(lines))

Swapped(lines, i) == [lines EXCEPT ![i] = lines[i + 1], ![i + 1] = lines[i]]

\* the outputs: a matching delta, and every output one line away from it
Outputs ==
    UNION {LET m == matching_delta(size)
           IN  {m} \cup {Removed(m, i) : i \in 1..Len(m)}
                   \cup {[m EXCEPT ![i] = l] : i \in 1..Len(m), l \in Lines}
                   \cup {Inserted(m, i, l) : i \in 1..(Len(m) + 1), l \in Lines}
                   \cup {Swapped(m, i) : i \in 1..(Len(m) - 1)}
           : size \in Sizes}

InitCheck ==
    /\ NoRun
    /\ act = TRUE
    /\ disk = {}
    /\ \E expected_size \in Sizes, target_size \in Sizes, stdout \in Outputs,
          stderr_data \in BOOLEAN, returncode \in {0, 1}, eof_fed \in BOOLEAN :
         called = [fn |-> "check_xdelta", expected_size |-> expected_size,
                   target_size |-> target_size,
                   p |-> [stdout |-> stdout, stderr_data |-> stderr_data,
                          returncode |-> returncode, eof_fed |-> eof_fed]]
    /\ outcome = NoCall

\* check_xdelta(xdelta_file, expected_size, target_size)
CheckXdelta ==
    /\ called # NoCall
    /\ called.fn = "check_xdelta"
    /\ outcome = NoCall
    /\ outcome' = check_xdelta(called.expected_size, called.target_size, called.p)
    /\ UNCHANGED <<wiringVars, runVars, fsVars, called>>

NextCheck == CheckXdelta

SpecCheck == InitCheck /\ [][NextCheck]_vars

-----------------------------------------------------------------------------
(* words_to_timestamp on every short transcript                             *)

MaxWords == 4

\* the words of the tables, and one word that is in none of them
Vocabulary ==
    DOMAIN days \cup DOMAIN months \cup DOMAIN ordinals
      \cup {"two", "twenty", "thousand"} \cup {"hello"}

\* text.split() of the transcripts
Spoken == UNION {[1..n -> Vocabulary] : n \in 0..MaxWords}

InitGrok ==
    /\ NoRun
    /\ act = TRUE
    /\ disk = {}
    /\ \E text \in Spoken \cup {<<NoWord>>} :
         called = [fn |-> "words_to_timestamp", text |-> text]
    /\ outcome = NoCall

\* words_to_timestamp(text)
WordsToTimestamp ==
    /\ called # NoCall
    /\ called.fn = "words_to_timestamp"
    /\ outcome = NoCall
    /\ outcome' = words_to_timestamp(called.text)
    /\ UNCHANGED <<wiringVars, runVars, fsVars, called>>

NextGrok == WordsToTimestamp

SpecGrok == InitGrok /\ [][NextGrok]_vars

-----------------------------------------------------------------------------
(* grok_year on spoken years                                                *)

\* a phrase and the number it says
Said(words, val) == [words |-> words, val |-> val]

\* the optional "and"
Ands == {<<>>, <<"and">>}

\* tens and ones
Tails ==
    {Said(<<"five">>, 5), Said(<<"nineteen">>, 19), Said(<<"twenty">>, 20),
     Said(<<"twenty", "five">>, 25), Said(<<"thirty">>, 30),
     Said(<<"thirty", "five">>, 35), Said(<<"ninety", "nine">>, 99)}

\* hundreds, with or without tens and ones
Hundreds ==
    {Said(<<"nine", "hundred">>, 900)}
      \cup {Said(<<"nine", "hundred">> \o a \o t.words, 900 + t.val) :
              a \in Ands, t \in Tails}

\* form (a): N thousand [and] hundreds/tens/ones
ThousandYears ==
    UNION {{Said(<<th.words[1], "thousand">>, th.val * 1000)}
             \cup {Said(<<th.words[1], "thousand">> \o a \o r.words,
                        th.val * 1000 + r.val) :
                     a \in Ands, r \in Tails \cup Hundreds}
           : th \in {Said(<<"one">>, 1), Said(<<"two">>, 2)}}

\* form (b): the first two digits, [hundred] [and], a two-digit tail
DoubletYears ==
    UNION {{Said(f.words \o <<"hundred">>, f.val * 100)}
             \cup {Said(f.words \o h \o a \o t.words, f.val * 100 + t.val) :
                     h \in {<<>>, <<"hundred">>}, a \in Ands,
                     t \in {u \in Tails : u.val >= 10}}
           : f \in {Said(<<"nineteen">>, 19), Said(<<"twenty">>, 20),
                    Said(<<"twenty", "five">>, 25)}}

InitYear ==
    /\ NoRun
    /\ act = TRUE
    /\ disk = {}
    /\ \E said \in ThousandYears \cup DoubletYears, after \in {<<>>, <<"hello">>} :
         called = [fn |-> "grok_year", year |-> said.val, phrase |-> said.words,
                   word_list |-> said.words \o after]
    /\ outcome = NoCall

\* grok_year(word_list)
GrokYear ==
    /\ called # NoCall
    /\ called.fn = "grok_year"
    /\ outcome = NoCall
    /\ outcome' = grok_year(called.word_list)
    /\ UNCHANGED <<wiringVars, runVars, fsVars, called>>

NextYear == GrokYear

SpecYear == InitYear /\ [][NextYear]_vars

-----------------------------------------------------------------------------
(* parse_timestamp and the --fallback-timestamp check of validate_args      *)

\* a string as the pieces strptime tells apart: a run of digits, one
\* separator character, or a word
Digits(ds) == [kind |-> "digits", digits |-> ds, text |-> ""]
Sep(c) == [kind |-> "sep", digits |-> <<>>, text |-> c]
Word(w) == [kind |-> "word", digits |-> <<>>, text |-> w]

\* the number a run of digits says
RECURSIVE number(_)
number(ds) == IF ds = <<>> THEN 0 ELSE number(SubSeq(ds, 1, Len(ds) - 1)) * 10 + ds[Len(ds)]

\* parse_timestamp, line 906: re.sub(r'[_ ]', '-', s)
sub_separators(str) ==
    [i \in 1..Len(str) |->
       IF str[i].kind = "sep" /\ str[i].text \in {"_", " "} THEN Sep("-") ELSE str[i]]

\* Config.timestamp_fmt_no_seconds and Config.timestamp_fmt_with_seconds
timestamp_fmt_no_seconds == <<"%Y%m%d", "-", "%H%M", "-", "%a">>
timestamp_fmt_with_seconds == <<"%Y%m%d", "-", "%H%M%S", "-", "%a">>

\* parse_timestamp, line 918: fmt.replace("-%a", "")
dayless(fmt) == SubSeq(fmt, 1, Len(fmt) - 2)

\* the abbreviated weekday names %a takes
weekday_abbreviations == {"Mon", "Wed"}

\* one piece of the string under one part of the format, for the dates of
\* eight digits and the times of four or six digits the model draws
directive_matches(directive, piece) ==
    CASE directive = "-" -> piece = Sep("-")
      [] directive = "%a" -> piece.kind = "word" /\ piece.text \in weekday_abbreviations
      [] directive = "%Y%m%d" ->
           /\ piece.kind = "digits"
           /\ Len(piece.digits) = 8
           /\ number(SubSeq(piece.digits, 5, 6)) \in 1..12
           /\ number(SubSeq(piece.digits, 7, 8)) \in
                1..days_in_month(number(SubSeq(piece.digits, 1, 4)),
                                 number(SubSeq(piece.digits, 5, 6)))
      [] directive = "%H%M" ->
           /\ piece.kind = "digits"
           /\ Len(piece.digits) = 4
           /\ number(SubSeq(piece.digits, 1, 2)) <= 23
           /\ number(SubSeq(piece.digits, 3, 4)) <= 59
      [] directive = "%H%M%S" ->
           /\ piece.kind = "digits"
           /\ Len(piece.digits) = 6
           /\ number(SubSeq(piece.digits, 1, 2)) <= 23
           /\ number(SubSeq(piece.digits, 3, 4)) <= 59
           /\ number(SubSeq(piece.digits, 5, 6)) <= 59

\* try_parse(f), lines 908-915: whether datetime.datetime.strptime(s, f) succeeds
try_parse(str, fmt) ==
    /\ Len(str) = Len(fmt)
    /\ \A i \in 1..Len(fmt) : directive_matches(fmt[i], str[i])

\* the datetime strptime builds from a string that matched
strptime(str) ==
    LET date == str[1].digits
        time == str[3].digits
    IN  <<number(SubSeq(date, 1, 4)), number(SubSeq(date, 5, 6)),
          number(SubSeq(date, 7, 8)), number(SubSeq(time, 1, 2)),
          number(SubSeq(time, 3, 4)),
          IF Len(time) = 6 THEN number(SubSeq(time, 5, 6)) ELSE 0>>

\* parse_timestamp(s): the datetime, Absent for None
parse_timestamp(s0) ==
    LET str == sub_separators(s0)
    IN  IF \E fmt \in {timestamp_fmt_no_seconds, timestamp_fmt_with_seconds} :
             try_parse(str, fmt) \/ try_parse(str, dayless(fmt))
        THEN Present(strptime(str))
        ELSE Absent

\* validate_args, lines 2319-2326: the fallback timestamp is normalized, kept
\* as one of the four words, or reported as an error
check_fallback_timestamp(fallback_timestamp) ==
    LET dt == parse_timestamp(fallback_timestamp)
    IN  IF dt # Absent THEN [dt |-> dt, error |-> FALSE]
        ELSE IF fallback_timestamp \in
                  {<<Word("now")>>, <<Word("mtime")>>, <<Word("ctime")>>, <<Word("atime")>>}
        THEN [dt |-> Absent, error |-> FALSE]
        ELSE [dt |-> Absent, error |-> TRUE]

\* the literals and words given to --fallback-timestamp
Separators == {Sep("-"), Sep("_"), Sep(" ")}

DateDigits == {<<2, 0, 2, 1, 0, 5, 1, 9>>, <<2, 0, 2, 0, 0, 2, 2, 9>>, <<2, 0, 2, 1, 0, 2, 3, 0>>}

TimeDigits == {<<1, 9, 3, 8>>, <<1, 9, 3, 8, 0, 5>>, <<0, 0, 0, 0>>, <<2, 3, 5, 9, 5, 9>>}

WeekdayWords == {"Wed", "Mon", "Wednesday"}

FallbackTimestamps ==
    {<<Word(w)>> : w \in {"now", "mtime", "ctime", "atime", "yesterday"}}
      \cup {<<Digits(d)>> : d \in DateDigits}
      \cup {<<Digits(d), s, Word(w)>> : d \in DateDigits, s \in Separators, w \in WeekdayWords}
      \cup {<<Digits(d), s, Digits(t)>> : d \in DateDigits, s \in Separators, t \in TimeDigits}
      \cup {<<Digits(d), s, Digits(t), s2, Word(w)>> :
              d \in DateDigits, s \in Separators, t \in TimeDigits,
              s2 \in Separators, w \in WeekdayWords}
      \cup {<<Digits(d), s, s, Digits(t)>> : d \in DateDigits, s \in Separators, t \in TimeDigits}

InitStamp ==
    /\ NoRun
    /\ act = TRUE
    /\ disk = {}
    /\ \E fallback_timestamp \in FallbackTimestamps :
         called = [fn |-> "validate_args", fallback_timestamp |-> fallback_timestamp]
    /\ outcome = NoCall

\* validate_args, the check of --fallback-timestamp
CheckFallbackTimestamp ==
    /\ called # NoCall
    /\ called.fn = "validate_args"
    /\ outcome = NoCall
    /\ outcome' = check_fallback_timestamp(called.fallback_timestamp)
    /\ UNCHANGED <<wiringVars, runVars, fsVars, called>>

NextStamp == CheckFallbackTimestamp

SpecStamp == InitStamp /\ [][NextStamp]_vars

-----------------------------------------------------------------------------
(* setup and listen with and without --no-act: the executor's workers run   *)
(* listen_to_wav against the progress directory setup made or found         *)

\* xinfo.wav_progress_dir / Config.audioinfo_fname, line 2039
audioinfo_fpath(i) == <<"dest", "progress_dir", i, ".audioinfo.json">>

\* what an interrupted run can have left: per-WAV directories with or without
\* the source link and the sidecar of listen_to_wav
ActLeftovers ==
    {U \in {S \cup T : S \in WavLeftovers,
                       T \in SUBSET {audioinfo_fpath(i) : i \in 0..(NumWavs - 1)}} :
        \A i \in 0..(NumWavs - 1) :
            audioinfo_fpath(i) \in U => wav_progress_dir(i) \in U}

\* what a sidecar file found on disk can hold: a JSON object that is no
\* AudioInfo, or the AudioInfo an earlier run dumped
StoredSidecars ==
    {Present(json_object(<<>>, [start |-> 0, duration |-> 3])),
     Present(write_json(AudioInfo(15, Present(TimeRange(0, 3)), Present(<<"hello">>),
                                  Absent, <<>>)))}

\* what extract_timestamp_from_audio can do with AudioInfo(duration_s=15): raise
\* an exception listen_to_wav expects or one it does not, or fill in the fields
Extractions ==
    {[exc |-> "NoSuitableAudioSpan",
      audioinfo |-> AudioInfo(15, Absent, Absent, Absent, <<>>)],
     [exc |-> "TimestampGrokError",
      audioinfo |-> AudioInfo(15, Present(TimeRange(0, 3)), Present(<<"hello">>),
                              Absent, <<>>)],
     [exc |-> "AssertionError",
      audioinfo |-> AudioInfo(15, Present(TimeRange(0, 3)), Present(<<"monday">>),
                              Absent, <<>>)],
     [exc |-> "",
      audioinfo |-> AudioInfo(15, Present(TimeRange(0, 3)),
                              Present(<<"may", "first", "two", "thousand">>),
                              Present(datetime(<<2000, 5, 1, 0, 0, 0>>)), <<>>)]}

\* what the tools can make of a WAV: no duration, or a duration and one of
\* the extractions
Recognitions ==
    {[probe |-> Absent, extracted |-> e] :
        e \in {x \in Extractions : x.exc = "NoSuitableAudioSpan"}}
      \cup {[probe |-> Present(15), extracted |-> e] : e \in Extractions}

\* listen_to_wav(xinfo, token), lines 2041-2063, given what
\* extract_timestamp_from_audio does when it is called
listen_given(sidecar, acting, probe, extracted) ==
    IF exists(sidecar) THEN listen_stored(sidecar)
    ELSE IF probe = Absent
         THEN Listened("raise", "InvalidMediaFile", Absent, {"get_file_duration"})
         ELSE listen_extracted(acting, extracted, {"get_file_duration"})

\* the steps left open downstream of setup and listen
ActEnv == {"reorder", "autoname", "prompt", "flacenc", "pargen", "xdelta", "cleanup"}

InitAct ==
    /\ network = StepNetwork
    /\ wstate = "building"
    /\ nadds = 0
    /\ script = run_tasks
    /\ IdleRun
    /\ act \in BOOLEAN
    /\ continue_from \in BOOLEAN
    /\ IF continue_from
       THEN \E S \in ActLeftovers : disk = {dest_dir, progress_dir} \cup S
       ELSE disk = {dest_dir}
    /\ called = NoCall
    /\ outcome = NoCall

\* a worker of the ProcessPoolExecutor runs listen_to_wav(worklist[token], token)
\* for a submitted token (lines 2111-2112, 2033-2063)
ListenWorker(token) ==
    /\ wstate = "accepted"
    /\ token \in submitted
    /\ token \notin DOMAIN outcome
    /\ \E rec \in Recognitions, stored \in StoredSidecars :
         LET sidecar == IF audioinfo_fpath(token) \in disk THEN stored ELSE Absent
             listened == listen_given(sidecar, act, rec.probe, rec.extracted)
         IN  /\ called' = [t \in DOMAIN called \cup {token} |->
                              IF t = token
                              THEN [sidecar |-> sidecar, probe |-> rec.probe,
                                    extracted |-> rec.extracted]
                              ELSE called[t]]
             /\ outcome' = [t \in DOMAIN outcome \cup {token} |->
                               IF t = token THEN listened ELSE outcome[t]]
             /\ disk' = IF listened.sidecar # Absent
                        THEN disk \cup {audioinfo_fpath(token)} ELSE disk
    /\ UNCHANGED <<wiringVars, runVars, act, continue_from>>

\* Step.listen, lines 2114-2117: as_completed yields a finished future;
\* future.result() raises what listen_to_wav raised, or the token is put
ListenAsCompleted(token) ==
    /\ CanRun("listen")
    /\ pc["listen"] = "emit"
    /\ token \in submitted
    /\ token \in DOMAIN outcome
    /\ token \notin Range(put_log[<<"token", "listen", "reorder">>])
    /\ IF outcome[token].kind = "raise"
       THEN /\ err' = [err EXCEPT !["listen"] = outcome[token].value]
            /\ pc' = [pc EXCEPT !["listen"] = "error"]
            /\ UNCHANGED <<items, put_log>>
       ELSE /\ items' = put(items, "listen", token)
            /\ put_log' = put(put_log, "listen", token)
            /\ UNCHANGED <<pc, err>>
    /\ UNCHANGED <<pending, getter, result, done, value, pre_sync_met, phase,
                   ret, worklist, submitted, delivered, invoked, nputs>>
    /\ UNCHANGED wiringVars
    /\ UNCHANGED <<fsVars, callVars>>

\* Step.listen, line 2119: every future has been collected
ListenPutEnd ==
    /\ CanRun("listen")
    /\ pc["listen"] = "emit"
    /\ submitted \subseteq Range(put_log[<<"token", "listen", "reorder">>])
    /\ items' = put(items, "listen", End)
    /\ put_log' = put(put_log, "listen", End)
    /\ pc' = [pc EXCEPT !["listen"] = "done"]
    /\ UNCHANGED <<pending, getter, result, done, value, pre_sync_met, phase,
                   ret, err, worklist, submitted, delivered, invoked, nputs>>
    /\ UNCHANGED wiringVars
    /\ UNCHANGED <<fsVars, callVars>>

NextAct ==
    \/ ScriptAdd
    \/ Execute(ActEnv)
    \/ \E q \in DOMAIN items : GetterRun(q)
    \/ \E s \in DOMAIN pc : GetAcrossEnter(s)
    \/ \E s \in DOMAIN pc : GetAcrossCheck(s)
    \/ \E s \in DOMAIN pc : GetAcrossWake(s)
    \/ \E s \in DOMAIN pc : PreSyncReturn(s)
    \/ SetupEmit
    \/ SetupEnd
    \/ ListenReturn
    \/ \E token \in Tokens : ListenWorker(token)
    \/ \E token \in Tokens : ListenAsCompleted(token)
    \/ ListenPutEnd

SpecAct == InitAct /\ [][NextAct]_vars

-----------------------------------------------------------------------------
(* One stepper whose upstreams each put every token once, in any order,     *)
(* and then the end token                                                   *)

\* the tokens of a run: the indexes of the worklist
WorklistTokens == 0..(worklist - 1)

\* the upstream of queue q puts a token it has not put yet, or the end token
\* after all of them; the upstream of a sync queue puts the end token only
UpstreamPut(q, token) ==
    /\ Idle
    /\ pc[q[2]] = "env"
    /\ pc[q[3]] # "env"
    /\ End \notin Range(put_log[q])
    /\ LET todo == IF q[1] = "sync" THEN {} ELSE WorklistTokens \ Range(put_log[q])
       IN  IF todo = {} THEN token = End ELSE token \in todo
    /\ items' = [items EXCEPT ![q] = Append(@, token)]
    /\ put_log' = [put_log EXCEPT ![q] = Append(@, token)]
    /\ UNCHANGED <<pending, getter, result, done, value, pre_sync_met, pc, phase,
                   ret, err, worklist, submitted, delivered, invoked, nputs>>
    /\ UNCHANGED wiringVars
    /\ UNCHANGED <<fsVars, callVars>>

\* the step body awaits something (a subprocess, asyncio.sleep): the event loop
\* runs the getters and the upstreams meanwhile
BodyAwait(s) ==
    /\ CanRun(s)
    /\ pc[s] = "body"
    /\ pc' = [pc EXCEPT ![s] = "await"]
    /\ UNCHANGED <<items, pending, getter, result, done, value, pre_sync_met, phase,
                   ret, err, worklist, submitted, put_log, delivered, invoked, nputs>>
    /\ UNCHANGED wiringVars
    /\ UNCHANGED <<fsVars, callVars>>

\* the step body is resumed and returns to walk; Stepper.step puts the value
\* of the last iteration and calls get() again (lines 1667-1670)
BodyResume(s) ==
    /\ CanRun(s)
    /\ pc[s] = "await"
    /\ items' = put(items, s, value[s])
    /\ put_log' = put(put_log, s, value[s])
    /\ pc' = [pc EXCEPT ![s] = "enter"]
    /\ UNCHANGED <<pending, getter, result, done, value, pre_sync_met, phase, ret,
                   err, worklist, submitted, delivered, invoked, nputs>>
    /\ UNCHANGED wiringVars
    /\ UNCHANGED <<fsVars, callVars>>

InitSame ==
    /\ network = StepNetwork
    /\ wstate = "building"
    /\ nadds = 0
    /\ \E ks \in 0..MaxSyncFrom, kp \in 1..MaxPullFrom : script = WalkerCalls(ks, kp)
    /\ items = <<>> /\ pending = <<>> /\ getter = <<>> /\ result = <<>>
    /\ done = <<>> /\ value = <<>> /\ pre_sync_met = <<>> /\ pc = <<>>
    /\ phase = <<>> /\ ret = <<>> /\ err = <<>>
    /\ worklist \in 0..NumWavs
    /\ submitted = {} /\ put_log = <<>> /\ delivered = <<>> /\ invoked = <<>>
    /\ nputs = 0
    /\ FreshRun

Build ==
    \/ ScriptAdd
    \/ Execute(WalkerEnv)

Upstreams == \E q \in DOMAIN items, token \in Tokens \cup {End} : UpstreamPut(q, token)

Bodies ==
    \/ BodyAwait("walker")
    \/ BodyResume("walker")

NextSame ==
    \/ Build
    \/ StepperNext
    \/ Bodies
    \/ Upstreams

\* the event loop runs every task that is ready: once execute() has gathered
\* the coroutines no enabled coroutine, getter or upstream is passed over for
\* ever
SpecSame ==
    /\ InitSame
    /\ [][NextSame]_vars
    /\ WF_vars(StepperNext)
    /\ WF_vars(Bodies)
    /\ WF_vars(Upstreams)

-----------------------------------------------------------------------------
(* A chain of stepped coroutines with one pull_from queue each: a stepped   *)
(* coroutine, then autoname and prompt as written, fed by an open upstream  *)

ChainCalls ==
    <<AddCall("up1", FALSE, NoneArg, NoneArg, <<"walker">>, NoneArg),
      AddCall("walker", TRUE, NoneArg, <<"up1">>, <<"autoname">>, NoneArg),
      AddCall("autoname", TRUE, NoneArg, <<"walker">>, <<"prompt">>, NoneArg),
      AddCall("prompt", TRUE, NoneArg, <<"autoname">>, <<"down">>, NoneArg),
      AddCall("down", FALSE, NoneArg, <<"prompt">>, NoneArg, NoneArg)>>

ChainEnv == {"up1", "down"}

InitChain ==
    /\ network = StepNetwork
    /\ wstate = "building"
    /\ nadds = 0
    /\ script = ChainCalls
    /\ IdleRun
    /\ FreshRun

NextChain ==
    \/ ScriptAdd
    \/ Execute(ChainEnv)
    \/ StepperNext
    \/ \E q \in DOMAIN items, token \in Tokens \cup {End} : EnvPut(q, token, MaxPuts)

SpecChain == InitChain /\ [][NextChain]_vars

-----------------------------------------------------------------------------
(* One stepper fed by arbitrary upstreams whose coroutine calls get() again *)
(* after get() has returned the end token                                   *)

\* a coroutine that goes on calling stepper.get() after the end token
GetAgain(s) ==
    /\ CanRun(s)
    /\ pc[s] = "done"
    /\ pc' = [pc EXCEPT ![s] = "enter"]
    /\ UNCHANGED <<items, pending, getter, result, done, value, pre_sync_met, phase,
                   ret, err, worklist, submitted, put_log, delivered, invoked, nputs>>
    /\ UNCHANGED wiringVars
    /\ UNCHANGED <<fsVars, callVars>>

InitAgain == InitWalker

NextAgain ==
    \/ ScriptAdd
    \/ Execute(WalkerEnv)
    \/ StepperNext
    \/ GetAgain("walker")
    \/ \E q \in DOMAIN items, token \in Tokens \cup {End} : EnvPut(q, token, MaxPuts)

SpecAgain == InitAgain /\ [][NextAgain]_vars

-----------------------------------------------------------------------------
(* Properties                                                              *)

Accepted == wstate = "accepted"

Walked == DOMAIN network.steps

Last(seq) == seq[Len(seq)]

\* C1: a stepper with at least two pull_from queues only gets tokens (the end
\* token included) that were put on every one of its pull_from queues before.
C1_DeliveredOnAllUpstreams ==
    Accepted =>
      \A s \in Walked :
        Cardinality(PullFrom(s)) >= 2 =>
          /\ \A i \in DOMAIN delivered[s] :
               \A q \in PullFrom(s) : delivered[s][i] \in Range(put_log[q])
          /\ (pc[s] = "ret" /\ phase[s] = "token") =>
               \A q \in PullFrom(s) : ret[s] \in Range(put_log[q])

\* two pull_from queues, and a token and the end token have been delivered
C1_Witness ==
    /\ Accepted
    /\ Cardinality(PullFrom("walker")) = 2
    /\ Len(delivered["walker"]) >= 2
    /\ delivered["walker"][1] # End

\* C2: in the run_tasks network the cleanup body is invoked for a token only
\* after pargen has put that token on its send_to queue and xdelta has put the
\* end token on its sync_to queue.
C2_CleanupAfterPredecessors ==
    Accepted =>
      \A i \in DOMAIN invoked["cleanup"] :
        /\ \A q \in Range(St("pargen").send_to) :
             invoked["cleanup"][i] \in Range(put_log[q])
        /\ \A q \in Range(St("xdelta").sync_to) : End \in Range(put_log[q])

\* the cleanup body has been invoked for a token
C2_Witness ==
    /\ Accepted
    /\ invoked["cleanup"] # <<>>
    /\ SyncFrom("cleanup") = {<<"sync", "xdelta", "cleanup">>}
    /\ PullFrom("cleanup") = {<<"token", "pargen", "cleanup">>}

AllDone == \A s \in DOMAIN pc : pc[s] = "done"

\* C3: in the run_tasks network, when no step raises, the run does not stop
\* before every coroutine has received and forwarded the end token and
\* returned: execute() terminates with every token delivered to cleanup.
C3_Terminates ==
    (Accepted /\ Running) =>
      \/ ENABLED NextRunTasks
      \/ /\ AllDone
         /\ invoked["cleanup"] = [i \in 1..NumWavs |-> i - 1]

\* C4: once listen has emitted its tokens and the end token and the run has
\* come to rest, reorder has emitted 0..n-1 in ascending order, then the end
\* token.
C4_ReorderEmitsAscending ==
    (Accepted /\ pc["listen"] = "done" /\ ~ENABLED NextRunTasks) =>
      put_log[<<"token", "reorder", "autoname">>]
        = Append([i \in 1..NumWavs |-> i - 1], End)

\* the links of the network, sync and token together
LinkGraph == DOMAIN network.sync_queues \cup DOMAIN network.token_queues

RECURSIVE Reachable(_, _, _)
Reachable(edges, from, n) ==
    IF n = 0 THEN from
    ELSE Reachable(edges, from \cup {e[2] : e \in {d \in edges : d[1] \in from}}, n - 1)

HasCycle(edges) ==
    \E e \in edges : e[1] \in Reachable(edges, {e[2]}, Cardinality(edges))

\* C5: whatever add() calls were made, when check_queues() accepts, the graph
\* of all sync and token links has no cycle and every queue has both ends
\* claimed.
C5_AcceptedIsAcyclic ==
    Accepted =>
      /\ ~HasCycle(LinkGraph)
      /\ \A l \in DOMAIN network.sync_queues :
           network.sync_queues[l].src /\ network.sync_queues[l].dest
      /\ \A l \in DOMAIN network.token_queues :
           network.token_queues[l].src /\ network.token_queues[l].dest

\* token t occurs at least twice in seq
Twice(seq, t) == \E i, j \in DOMAIN seq : i < j /\ seq[i] = t /\ seq[j] = t

\* the part of a queue's history up to its first end token
RECURSIVE BeforeEnd(_)
BeforeEnd(seq) ==
    IF seq = <<>> \/ Head(seq) = End THEN <<>>
    ELSE <<Head(seq)>> \o BeforeEnd(Tail(seq))

\* C6: get() never returns the same non-end token twice, and a stepper whose
\* upstream put a non-end token twice on one pull_from queue does not finish
\* its walk: it fails with DuplicateTokenError.
C6_NoTokenTwice ==
    Accepted =>
      \A s \in Walked :
        /\ \A t \in Tokens : ~Twice(delivered[s], t)
        /\ (\E q \in PullFrom(s), t \in Tokens : Twice(BeforeEnd(put_log[q]), t))
             => pc[s] # "done"

\* the pending sets of the pull_from queues of stepper s
PullPending(s) == {pending[q] : q \in PullFrom(s)}

\* the end token has been received on every pull_from queue of s and is pending
EndOnAll(s) == \A q \in PullFrom(s) : End \in pending[q]

\* some pull_from queue of s holds a pending token that is not pending on all
Mismatch(s) == \E q \in PullFrom(s) : pending[q] # Intersection(PullPending(s))

\* C7: for a stepper with at least two pull_from queues, once the end token has
\* been received on all of them, get() raises DesynchronizationError when some
\* queue holds a pending token that is not pending on every queue (and raises
\* it in no other case); otherwise it returns the remaining common tokens
\* first and the end token last, so a finished walk has delivered every token
\* its upstreams all put before their end token.
C7_EndOnAllQueues ==
    Accepted =>
      \A s \in Walked :
        (Cardinality(PullFrom(s)) >= 2 /\ phase[s] = "token") =>
          /\ (EndOnAll(s) /\ Mismatch(s)) =>
                /\ pc[s] \in {"check", "error"}
                /\ pc[s] = "error" => err[s] = "DesynchronizationError"
          /\ err[s] = "DesynchronizationError" => (EndOnAll(s) /\ Mismatch(s))
          /\ (pc[s] = "ret" /\ ret[s] = End) =>
                \A q \in PullFrom(s) : pending[q] = {}
          /\ pc[s] = "done" =>
                /\ Last(delivered[s]) = End
                /\ \A i \in 1..(Len(delivered[s]) - 1) : delivered[s][i] # End
                /\ \A q \in PullFrom(s) : pending[q] = {}
                /\ \A t \in Tokens :
                     (\A q \in PullFrom(s) : t \in Range(BeforeEnd(put_log[q])))
                       => t \in Range(delivered[s])

\* two pull_from queues got the end token, one of them an extra token, and
\* get() raised DesynchronizationError
C7_Witness ==
    /\ Accepted
    /\ Cardinality(PullFrom("walker")) = 2
    /\ phase["walker"] = "token"
    /\ EndOnAll("walker")
    /\ Mismatch("walker")
    /\ err["walker"] = "DesynchronizationError"

\* some sync_from queue of s was given a value other than the end token first
NonEndFirst(s) ==
    \E q \in Range(St(s).sync_from) : put_log[q] # <<>> /\ put_log[q][1] # End

PutSoFar(s) ==
    IF pc[s] = "body" THEN SubSeq(delivered[s], 1, Len(delivered[s]) - 1)
    ELSE delivered[s]

\* C9: the puts of a walking stepper append each token to every send_to queue;
\* the sync_to queues are left unchanged by a non-end token and get the end
\* token exactly when the end token is put, so they never carry another token.
C9_PutFrame ==
    Accepted =>
      \A s \in Walked :
        /\ \A q \in Range(St(s).send_to) : put_log[q] = PutSoFar(s)
        /\ \A q \in Range(St(s).sync_to) :
             put_log[q] = IF End \in Range(PutSoFar(s)) THEN <<End>> ELSE <<>>

\* the stepper has put a token and then the end token
C9_Witness ==
    /\ Accepted
    /\ Len(put_log[<<"token", "walker", "down">>]) >= 2
    /\ put_log[<<"token", "walker", "down">>][1] # End
    /\ put_log[<<"token", "walker", "down2">>] = put_log[<<"token", "walker", "down">>]
    /\ put_log[<<"sync", "walker", "down">>] = <<End>>

\* C10: in the run_tasks network no stepper's get() returns a token from its
\* pull_from queues before each of its sync_from queues has produced the end
\* token; the xdelta body is invoked only after flacenc has put the end token.
C10_SyncBarrier ==
    Accepted =>
      /\ \A s \in DOMAIN pc :
           (delivered[s] # <<>> \/ (phase[s] = "token" /\ pc[s] = "ret")) =>
             \A q \in Range(St(s).sync_from) :
               End \in Range(put_log[q]) /\ done[q]
      /\ invoked["xdelta"] # <<>> =>
           /\ End \in Range(put_log[<<"sync", "flacenc", "xdelta">>])
           /\ End \in Range(put_log[<<"token", "flacenc", "pargen">>])

\* the xdelta body has been invoked behind its sync_from barrier
C10_Witness ==
    /\ Accepted
    /\ St("xdelta").sync_from = <<<<"sync", "flacenc", "xdelta">>>>
    /\ invoked["xdelta"] # <<>>

\* C11: in the run_tasks network the pargen body is invoked for a token only
\* after prompt has put that token on its queue to pargen and flacenc has put
\* it on its queue to pargen.
C11_PargenAfterPromptAndFlacenc ==
    Accepted =>
      \A i \in DOMAIN invoked["pargen"] :
        /\ invoked["pargen"][i] \in Range(put_log[<<"token", "prompt", "pargen">>])
        /\ invoked["pargen"][i] \in Range(put_log[<<"token", "flacenc", "pargen">>])

\* the pargen body has been invoked for a token, pulling from both queues
C11_Witness ==
    /\ Accepted
    /\ St("pargen").pull_from
         = <<<<"token", "prompt", "pargen">>, <<"token", "flacenc", "pargen">>>>
    /\ invoked["pargen"] # <<>>

\* the non-end tokens present on a queue: waiting in it, or read from it and
\* pending in its stepper
OnQueue(q) == (Range(items[q]) \cup pending[q]) \ {End}

\* C12 as stated: every non-end token on any queue is an index into the
\* worklist and the wav_progress_dir of that entry exists on disk.
C12_TokenHasProgressDir ==
    Accepted =>
      \A q \in DOMAIN items : \A token \in OnQueue(q) :
        /\ token \in 0..(worklist - 1)
        /\ wav_progress_dir(token) \in disk

\* C12, amended: every non-end token on any queue is an index into the
\* worklist; in a run that acts (no --no-act) the wav_progress_dir of that
\* entry and its source link exist on disk, and a run that does not act
\* leaves the disk as it found it.
C12_TokenIsIndexAndDirWhenActing ==
    Accepted =>
      /\ \A q \in DOMAIN items : \A token \in OnQueue(q) :
           /\ token \in 0..(worklist - 1)
           /\ act => (wav_progress_dir(token) \in disk /\ source_link(token) \in disk)
      /\ (~act /\ ~continue_from) => disk = {dest_dir}

\* an acting run has a token on the queue to flacenc, its directory on disk
C12_Witness ==
    /\ Accepted
    /\ act
    /\ 0 \in OnQueue(<<"token", "setup", "flacenc">>)
    /\ wav_progress_dir(0) \in disk

\* C13: a run resumed with --continue, whatever directories and links the
\* interrupted run left, raises no error in setup, and once setup has returned
\* it has emitted one token per WAV and then the end token.
C13_ResumeAccepted ==
    (Accepted /\ continue_from) =>
      /\ err["setup"] = ""
      /\ pc["setup"] = "done" =>
           put_log[<<"token", "setup", "listen">>]
             = Append([i \in 1..NumWavs |-> i - 1], End)

\* C16: for every AudioInfo a, read_json(write_json(a)) is an AudioInfo equal
\* to a, and a speech_range that was a TimeRange is a TimeRange again.
C16_JsonRoundTrip ==
    (outcome # NoCall /\ called.fn = "write_json" /\ outcome.value # Absent) =>
      /\ outcome.value[1] = called.obj
      /\ called.obj.speech_range # Absent =>
           outcome.value[1].speech_range[1].cls = "TimeRange"

\* the recognizer returned text and the grammar accepted it
Accepts(text) == text # <<NoWord>> /\ words_to_timestamp(text).kind = "return"

\* the recognition of a file without a sidecar got as far as the grammar and
\* ended in an exception listen_to_wav expects
ExpectedFailure(c) ==
    /\ c.sidecar = Absent
    /\ c.probe # Absent
    /\ \/ c.span = Absent
       \/ /\ words_to_timestamp(c.text).kind = "raise"
          /\ words_to_timestamp(c.text).value = "TimestampGrokError"

\* C14: once listen has emitted a token, the AudioInfo of its worklist entry
\* has duration_s set, and has parsed_timestamp set exactly when the recognizer
\* returned text that the grammar accepted (for a loaded sidecar: the text the
\* earlier run recognized); a NoSuitableAudioSpan or TimestampGrokError does
\* not keep the token from being emitted, with the partial AudioInfo.
C14_ListenEmits ==
    (outcome # NoCall /\ called.fn = "listen_to_wav") =>
      /\ outcome.emitted =>
           LET info == outcome.audioinfo[1]
           IN  /\ info.duration_s # Absent
               /\ called.sidecar = Absent =>
                    (info.parsed_timestamp # Absent
                       <=> (called.span # Absent /\ Accepts(called.text)))
               /\ called.sidecar # Absent =>
                    (info.parsed_timestamp # Absent
                       <=> (info.recognized_speech # Absent
                              /\ Accepts(info.recognized_speech[1])))
      /\ (outcome.collected /\ ExpectedFailure(called)) =>
           /\ outcome.emitted
           /\ outcome.audioinfo[1].duration_s = called.probe
           /\ outcome.audioinfo[1].parsed_timestamp = Absent

\* the grammar rejected what the recognizer heard, and the token was emitted
\* with the duration, the speech range and the text
C14_Witness ==
    /\ outcome # NoCall
    /\ called.fn = "listen_to_wav"
    /\ called.sidecar = Absent
    /\ called.text = <<"hello">>
    /\ outcome.emitted
    /\ outcome.audioinfo[1].recognized_speech = Present(<<"hello">>)

\* C15: when the sidecar exists, listen_to_wav returns what read_json loads
\* from it, runs neither the duration probe, the silence detector nor the
\* recognizer, and leaves the sidecar as it was.
C15_SidecarSkipsRecognition ==
    (outcome # NoCall /\ called.fn = "listen_to_wav" /\ called.sidecar # Absent) =>
      /\ outcome.result.tools = {}
      /\ outcome.result.sidecar = called.sidecar
      /\ outcome.result.kind = "return" =>
           outcome.result.value = read_json(called.sidecar[1])
      /\ outcome.result.kind = "raise" =>
           outcome.result.value = "InvalidProgressFile"

\* a sidecar holding a parsed timestamp was loaded
C15_Witness ==
    /\ outcome # NoCall
    /\ called.fn = "listen_to_wav"
    /\ called.sidecar # Absent
    /\ called.probe # Absent
    /\ outcome.result.kind = "return"
    /\ outcome.result.value.parsed_timestamp # Absent

\* C18: encode_xdelta_from_flac_to_wav has waited for both children when it
\* ends, and ends in SubprocessError when one of them exited with a non-zero
\* code.
C18_NonZeroExitRaises ==
    (called # NoCall /\ called.fn = "encode_xdelta_from_flac_to_wav"
       /\ outcome.at = "done") =>
      /\ outcome.waited = Children
      /\ (\E c \in Children : called.codes[c] # 0) =>
           (outcome.result.kind = "raise" /\ outcome.result.value = "SubprocessError")

\* C19: the block size par2_create passes is a positive multiple of 4096 that
\* is at least min_blocksize, and no smaller positive multiple of 4096 is; it is
\* 4096 when min_blocksize is 0, and 12288 for 1 GiB, 2 volumes, 5%.
C19_BlockSize ==
    (called # NoCall /\ called.fn = "par2_create" /\ outcome # NoCall) =>
      /\ outcome.blocksize > 0
      /\ outcome.blocksize % 4096 = 0
      /\ outcome.blocksize >= outcome.min_blocksize
      /\ outcome.blocksize - 4096 <= 0 \/ outcome.blocksize - 4096 < outcome.min_blocksize
      /\ outcome.min_blocksize = 0 => outcome.blocksize = 4096
      /\ (called.filesize = GiB /\ called.num_par2_files = 2
            /\ called.percent_redundancy = 5) =>
           (outcome.num_par2_bytes = 107374182 /\ outcome.min_blocksize = 10737
              /\ outcome.blocksize = 12288)

\* the block size was raised above the base for the 1 GiB file
C19_Witness ==
    /\ called # NoCall
    /\ called.fn = "par2_create"
    /\ called.filesize = GiB
    /\ called.num_par2_files = 2
    /\ called.percent_redundancy = 5
    /\ outcome # NoCall
    /\ outcome.blocksize = 12288

\* the first line of the output that is not a "key: value" line
RECURSIVE FirstText(_, _)
FirstText(stdout, n) ==
    IF n > Len(stdout) \/ stdout[n].key = "" THEN n ELSE FirstText(stdout, n + 1)

\* each of the keys is on exactly one of the lines before the n-th, with the
\* value expected for it
FoundOnce(stdout, n, keys, expected_size) ==
    \A k \in keys :
       /\ Cardinality({i \in 1..(n - 1) : stdout[i].key = k}) = 1
       /\ \E i \in 1..(n - 1) :
            stdout[i] = Field(k, expected_vcdiffs(expected_size)[k][1])

\* from the n-th line on: the column header, the one copy instruction, and
\* the end of the output (after at most a blank line, the end having arrived)
SingleCopy(p, n, expected_size) ==
    /\ getline(p.stdout, n) = header_line
    /\ getline(p.stdout, n + 1).words =
         <<"000000", "019", "CPY_0", decimal[expected_size], "@0">>
    /\ \/ Len(p.stdout) = n + 1
       \/ Len(p.stdout) = n + 2 /\ p.stdout[n + 2] = nothing /\ p.eof_fed
    /\ ~p.stderr_data
    /\ p.returncode = 0

MonthMissing(text) ==
    /\ text # <<NoWord>>
    /\ LET i == first_date_word(text, 1)
       IN  \/ i = 0
           \/ /\ text[i] \in DOMAIN days
              /\ i = Len(text) \/ text[i + 1] \notin DOMAIN months

\* C20: for a transcript without a month name where the date phrase needs
\* it, words_to_timestamp ends with TimestampGrokError.
C20_NoMonthIsGrokError ==
    (called # NoCall /\ called.fn = "words_to_timestamp" /\ outcome # NoCall
       /\ MonthMissing(called.text)) =>
      (outcome.kind = "raise" /\ outcome.value = "TimestampGrokError")

\* C21: for a year of 1900..2999 said in form (a) or (b), grok_year returns
\* the year and leaves exactly the words after the year phrase; a year
\* outside 1900..2999 raises TimestampGrokError.
C21_YearAsSpoken ==
    (called # NoCall /\ called.fn = "grok_year" /\ outcome # NoCall) =>
      IF called.year \in 1900..2999
      THEN /\ outcome.exc = ""
           /\ outcome.value = called.year
           /\ outcome.rest = SubSeq(called.word_list, Len(called.phrase) + 1,
                                     Len(called.word_list))
      ELSE outcome.exc = "TimestampGrokError"

\* the instant a literal YYYYmmdd[-HHMM[SS]][-aaa] names, Absent when the
\* string is no such literal
Literal(str) ==
    LET IsDate(p) == /\ p.kind = "digits" /\ Len(p.digits) = 8
                     /\ number(SubSeq(p.digits, 5, 6)) \in 1..12
                     /\ number(SubSeq(p.digits, 7, 8)) \in
                          1..days_in_month(number(SubSeq(p.digits, 1, 4)),
                                           number(SubSeq(p.digits, 5, 6)))
        IsTime(p) == /\ p.kind = "digits" /\ Len(p.digits) \in {4, 6}
                     /\ number(SubSeq(p.digits, 1, 2)) <= 23
                     /\ number(SubSeq(p.digits, 3, 4)) <= 59
                     /\ Len(p.digits) = 6 => number(SubSeq(p.digits, 5, 6)) <= 59
        IsDay(p) == p.kind = "word" /\ p.text \in {"Mon", "Wed"}
        IsSep(p) == p.kind = "sep"
        Ymd(p) == <<number(SubSeq(p.digits, 1, 4)), number(SubSeq(p.digits, 5, 6)),
                    number(SubSeq(p.digits, 7, 8))>>
        Hms(p) == <<number(SubSeq(p.digits, 1, 2)), number(SubSeq(p.digits, 3, 4)),
                    IF Len(p.digits) = 6 THEN number(SubSeq(p.digits, 5, 6)) ELSE 0>>
    IN  IF Len(str) = 1 /\ IsDate(str[1]) THEN Present(Ymd(str[1]) \o <<0, 0, 0>>)
        ELSE IF Len(str) = 3 /\ IsDate(str[1]) /\ IsSep(str[2]) /\ IsDay(str[3])
        THEN Present(Ymd(str[1]) \o <<0, 0, 0>>)
        ELSE IF Len(str) = 3 /\ IsDate(str[1]) /\ IsSep(str[2]) /\ IsTime(str[3])
        THEN Present(Ymd(str[1]) \o Hms(str[3]))
        ELSE IF Len(str) = 5 /\ IsDate(str[1]) /\ IsSep(str[2]) /\ IsTime(str[3])
                /\ IsSep(str[4]) /\ IsDay(str[5])
        THEN Present(Ymd(str[1]) \o Hms(str[3]))
        ELSE Absent

\* C22: the check of --fallback-timestamp takes every literal of a shape of
\* YYYYmmdd[-HHMM[SS]][-aaa] as the instant it names, and reports an error
\* only for a value that is neither such a literal nor now, mtime, ctime, atime.
C22_FallbackTimestampLiterals ==
    (called # NoCall /\ called.fn = "validate_args" /\ outcome # NoCall) =>
      /\ Literal(called.fallback_timestamp) # Absent =>
           outcome.dt = Literal(called.fallback_timestamp)
      /\ outcome.error =>
           /\ Literal(called.fallback_timestamp) = Absent
           /\ called.fallback_timestamp \notin
                {<<Word(w)>> : w \in {"now", "mtime", "ctime", "atime"}}

\* how often queue id is in the list lname of the steppers of the network
Holders(lname, id) ==
    {<<c, i>> \in UNION {{c} \X DOMAIN St(c)[lname] : c \in Coroutines(network)} :
       St(c)[lname][i] = id}

\* C23: an accepted network has no self-loop, has both ends of every queue
\* claimed (so no link declared by one endpoint only, or as a token link by one
\* and a sync link by the other), and every queue is in the send_to or sync_to
\* list of exactly one stepper, once, and in the pull_from or sync_from list
\* of exactly one stepper, once; no coroutine runs before the network is
\* accepted.
C23_AcceptedWiring ==
    /\ ~Accepted => pc = <<>>
    /\ Accepted =>
         /\ \A l \in LinkGraph : l[1] # l[2]
         /\ \A l \in DOMAIN network.token_queues :
              /\ network.token_queues[l].src /\ network.token_queues[l].dest
              /\ Cardinality(Holders("send_to", QueueId("token", l))) = 1
              /\ Cardinality(Holders("pull_from", QueueId("token", l))) = 1
         /\ \A l \in DOMAIN network.sync_queues :
              /\ network.sync_queues[l].src /\ network.sync_queues[l].dest
              /\ Cardinality(Holders("sync_to", QueueId("sync", l))) = 1
              /\ Cardinality(Holders("sync_from", QueueId("sync", l))) = 1

\* the tokens of seq that are not the end token, in order
RECURSIVE NonEnd(_)
NonEnd(seq) ==
    IF seq = <<>> THEN <<>>
    ELSE IF Head(seq) = End THEN NonEnd(Tail(seq))
    ELSE <<Head(seq)>> \o NonEnd(Tail(seq))

\* C24: walk invokes the step body once for each non-end token get() delivered,
\* in delivery order; while the body runs for token t, t is not yet on a send_to
\* queue, and whenever get() is called again every token whose body returned is
\* on each send_to queue; after the end token is delivered the end token is put
\* exactly once and no body is invoked for it.
C24_WalkInvokesThenPuts ==
    Accepted =>
      \A s \in Walked :
        /\ invoked[s] = NonEnd(delivered[s])
        /\ End \notin Range(invoked[s])
        /\ \A q \in Range(St(s).send_to) :
             /\ pc[s] = "body" =>
                   /\ value[s] = Last(invoked[s])
                   /\ put_log[q] = SubSeq(invoked[s], 1, Len(invoked[s]) - 1)
             /\ (phase[s] = "token" /\ pc[s] \notin {"body", "done"}) =>
                   put_log[q] = invoked[s]
             /\ pc[s] = "done" =>
                   /\ Last(delivered[s]) = End
                   /\ put_log[q] = Append(invoked[s], End)

\* the body ran for two tokens, each was put after it, and the walk ended
C24_Witness ==
    /\ Accepted
    /\ pc["walker"] = "done"
    /\ Len(invoked["walker"]) = 2
    /\ put_log[<<"token", "walker", "down2">>] = Append(invoked["walker"], End)

\* what listen_to_wav would have done for an executed call in a run that acts
ActingTwin(c) == listen_given(c.sidecar, TRUE, c.probe, c.extracted)

\* every token of the run followed by the end token
AllTokensThenEnd == Append([i \in 1..NumWavs |-> i - 1], End)

QSeq(s) == IF phase[s] = "sync" THEN St(s).sync_from ELSE St(s).pull_from

\* the queues of q_list that hold tokens beyond the common ones, in list order
RECURSIVE WithExtras(_, _)
WithExtras(q_list, common) ==
    IF q_list = <<>> THEN <<>>
    ELSE (IF pending[Head(q_list)] \ common # {} THEN <<Head(q_list)>> ELSE <<>>)
         \o WithExtras(Tail(q_list), common)

\* C26: when get() has raised DesynchronizationError for two or more queues,
\* the report has one entry for each queue that holds extra pending tokens,
\* and the entry carries that queue's own name and exactly its own extra
\* tokens (its pending set minus the tokens common to all queues).
C26_ReportNamesOwnQueue ==
    Accepted =>
      \A s \in Walked :
        (err[s] = "DesynchronizationError" /\ Len(QSeq(s)) >= 2) =>
          LET common == Intersection({pending[q] : q \in Range(QSeq(s))})
              owners == WithExtras(QSeq(s), common)
              report == desynchronization_report(QSeq(s)).mismatches
          IN  /\ Len(report) = Len(owners)
              /\ \A i \in DOMAIN report :
                   /\ report[i].name = owners[i]
                   /\ report[i].tokens = pending[owners[i]] \ common

\* the walk of the stepper has delivered every token of the run once and the
\* end token last
DeliveredAll(s) ==
    /\ Len(delivered[s]) = worklist + 1
    /\ Range(delivered[s]) = WorklistTokens \cup {End}
    /\ Last(delivered[s]) = End

\* C27: a stepper whose pull_from upstreams each put the same distinct tokens,
\* in any order and interleaving, and then the end token, never fails, never
\* gets a token twice or after the end token, and under fair scheduling of
\* the executing network its get() calls eventually have returned every token
\* once and the end token last; a token an outstanding getter read between two get() calls has not
\* been returned before and so is among those returned by the later calls.
C27_SameTokensAllDelivered ==
    /\ [](Accepted =>
            /\ err["walker"] = ""
            /\ \A i, j \in DOMAIN delivered["walker"] :
                 (i < j) => /\ delivered["walker"][i] # delivered["walker"][j]
                            /\ delivered["walker"][i] # End
            /\ \A q \in PullFrom("walker") :
                 (getter[q] = "got" /\ pc["walker"] = "await")
                   => result[q] \notin Range(delivered["walker"]))
    /\ Accepted ~> (Accepted /\ pc["walker"] = "done" /\ DeliveredAll("walker"))

\* two upstreams have put the tokens in different orders, the stepper has got
\* one of them and its body is suspended, and a getter holds a token it read
C27_Witness ==
    /\ Accepted
    /\ Cardinality(PullFrom("walker")) = 2
    /\ put_log[<<"token", "up1", "walker">>] = <<0, 1, End>>
    /\ put_log[<<"token", "up2", "walker">>] = <<1, 0, End>>
    /\ pc["walker"] = "await"
    /\ Len(delivered["walker"]) = 1
    /\ \E q \in PullFrom("walker") : getter[q] = "got" /\ result[q] # End

\* seq is the beginning of whole
IsPrefix(seq, whole) == Len(seq) <= Len(whole) /\ seq = SubSeq(whole, 1, Len(seq))

\* C28: a stepper with exactly one pull_from queue gets the tokens in the order
\* they were put on that queue and puts them on in that order, so what a chain
\* of such steppers (a stepped coroutine, autoname, prompt) emits at each stage
\* is a beginning of what the first step received, in the same order.
C28_SinglePullFromKeepsOrder ==
    Accepted =>
      /\ \A s \in Walked :
           Len(St(s).pull_from) = 1 =>
             /\ IsPrefix(delivered[s], put_log[St(s).pull_from[1]])
             /\ \A q \in Range(St(s).send_to) : IsPrefix(put_log[q], delivered[s])
      /\ IsPrefix(put_log[<<"token", "autoname", "prompt">>],
                  put_log[<<"token", "up1", "walker">>])
      /\ IsPrefix(put_log[<<"token", "prompt", "down">>],
                  put_log[<<"token", "up1", "walker">>])

\* autoname has emitted two different tokens, the second of the chain to do so
C28_Witness ==
    /\ Accepted
    /\ Len(put_log[<<"token", "autoname", "prompt">>]) >= 2
    /\ put_log[<<"token", "autoname", "prompt">>][1] = 1
    /\ put_log[<<"token", "autoname", "prompt">>][2] = 0

\* how many tokens have been taken off queue q
TakenOff(q) == Len(put_log[q]) - Len(items[q])

\* C29: once get() has returned the end token of the pull_from queues nothing
\* more is delivered, also when get() is called again; of each pull_from queue
\* at most the tokens up to its first end token are ever taken off, what was
\* put after it stays in the queue, and every token delivered was put before
\* the end token on every pull_from queue.
C29_NothingAfterEnd ==
    Accepted =>
      \A s \in Walked :
        /\ \A i \in DOMAIN delivered[s] :
             /\ delivered[s][i] = End => i = Len(delivered[s])
             /\ delivered[s][i] # End =>
                  \A q \in PullFrom(s) : delivered[s][i] \in Range(BeforeEnd(put_log[q]))
        /\ \A q \in PullFrom(s) :
             /\ TakenOff(q) <= Len(BeforeEnd(put_log[q])) + 1
             /\ done[q] =>
                  /\ getter[q] = "none"
                  /\ TakenOff(q) = Len(BeforeEnd(put_log[q])) + 1

\* get() has returned the end token and is called again while a token put
\* after the end token waits in a pull_from queue
C29_Witness ==
    /\ Accepted
    /\ delivered["walker"] # <<>>
    /\ Last(delivered["walker"]) = End
    /\ pc["walker"] \in {"check", "spin"}
    /\ \E q \in PullFrom("walker") :
         /\ done[q]
         /\ items[q] # <<>>
         /\ Last(put_log[q]) # End

\* C30: whatever the word sequence, words_to_timestamp returns a timestamp and
\* the extra words or raises TimestampGrokError; no other exception
\* (ValueError, AssertionError) leaves it.
C30_OnlyGrokErrorEscapes ==
    (called # NoCall /\ called.fn = "words_to_timestamp" /\ outcome # NoCall) =>
      \/ outcome.kind = "return"
      \/ outcome.kind = "raise" /\ outcome.value = "TimestampGrokError"

====
